---- MODULE Spec2Model ----
(***************************************************************************)
(* Procedural plant generator (pine.ts, sunflower.ts): the seeded random   *)
(* source, the recursive structure generators, bounds / auto-fit, and the  *)
(* growth flattening projector.                                            *)
(*                                                                         *)
(* Number representation.                                                  *)
(*   - The generator state is an IEEE double holding an integer.  Integers *)
(*     are little-endian sequences of 16-bit limbs; a double's 53-bit      *)
(*     significand is modelled by Round53 (round to nearest, ties to even).*)
(*   - Tree-space reals (coordinates, lengths, distances, radii) are       *)
(*     fixed-point integers in units of 1/Q; angles are in units of 1/AQ   *)
(*     degree; multiplicative factors and probabilities in units of 1/FQ.  *)
(*   - localT, the fit scale and the offsets are exact rationals.          *)
(***************************************************************************)
EXTENDS Integers, Sequences, FiniteSets, TLC

VARIABLES
    rng,         \* SeededRandom.seed of the live generator object (limbs), or NoRng
    rngPrev,     \* history: the seed before the last call of next()
    rngCalls,    \* history: number of next() calls made on the object
    rngOp,       \* history: the last call made on the object and what it returned
    pc,          \* position in generateVideo
    plant,       \* "pine" (pine.ts) or "sunflower" (sunflower.ts)
    configSeed,  \* CONFIG.seed
    maxDepth,    \* maxDepth (pine) or segments (sunflower) handed to the generator
    run,         \* history: 1 for the first generation from the seed, 2 for the second
    fullTree,    \* the generated structure, or NoTree
    firstTree,   \* history: the structure the first generation produced
    bounds,      \* result of calculateBounds
    visitOrder,  \* history: an order of visiting the branches and entities
    anyBounds,   \* history: the bounds accumulated when visiting in visitOrder
    autoFit,     \* finalScale, offsetX, offsetY
    maxDistance, \* result of getMaxDist
    frame,       \* loop counter of the frame loop
    frameBranches, \* branchList filled by flattenTreeOrganic for this frame
    frameEntities, \* entityList filled by flattenTreeOrganic for this frame
    again,       \* history: the lists a second, identical call filled, or NoLists
    growthDist,  \* currentGrowthDist of the last iteration of the frame loop
    drawList,    \* the entities in the order the iteration draws them
    stdinWrites, \* history: the frames handed to ffmpeg.stdin.write, in order
    stdinEnded,  \* history: number of calls of ffmpeg.stdin.end()
    needDrain,   \* the last write returned false and no 'drain' has come since
    passes,      \* flattenTreeOrganic calls in progress: progress, branches still
                 \* to visit, the two lists
    canvas,      \* what was drawn on the canvas since the last clearRect, in order
    snapshot     \* the image written to CONFIG.imageFilename, if one was

rngVars  == <<rng, rngPrev, rngCalls, rngOp>>
treeVars == <<plant, configSeed, maxDepth, run, fullTree, firstTree>>
fitVars  == <<bounds, visitOrder, anyBounds, autoFit, maxDistance>>
drawVars == <<frame, frameBranches, frameEntities, again, growthDist, drawList>>
sinkVars == <<stdinWrites, stdinEnded, needDrain>>
canvasVars == <<canvas, snapshot>>
vars     == <<rngVars, pc, treeVars, fitVars, drawVars, sinkVars, passes, canvasVars>>

NoRng   == <<>>
NoTree  == <<>>
NoOrder == <<>>
NoFit   == <<>>
NoLists == <<>>
NoSnapshot == [saved |-> FALSE, image |-> <<>>]
NoOp    == [op |-> "none", min |-> 0, max |-> 0, out |-> 0]

-----------------------------------------------------------------------------
(* Bounds of the model *)

MaxCalls == 4

\* largest maxDepth handed to generateFullTree
MaxDepth == 3

\* largest segment count handed to generateSunflower
MaxSegments == 8

\* CONFIG.durationSeconds * CONFIG.fps of the frame loop
TotalFrames == 6

\* visiting orders tried by the bounds accumulation: MaxRotation + 1 starting
\* points, forwards and backwards
MaxRotation == 3

-----------------------------------------------------------------------------
(* Fixed-point resolutions *)

Q  == 5 + 5        \* tree-space units per 1.0
AQ == 5 + 5        \* angle units per degree
FQ == 10 * 100     \* factor units per 1.0

-----------------------------------------------------------------------------
(* Integers wider than 32 bits: little-endian 16-bit limbs *)

LB == 2^16

Max(a, b) == IF a >= b THEN a ELSE b
Min(a, b) == IF a <= b THEN a ELSE b

LimbAt(x, i) == IF i \in DOMAIN x THEN x[i] ELSE 0

\* x mod 2^32 and x mod 2^64, as 4 limbs
Low32(x) == <<LimbAt(x, 1), LimbAt(x, 2), 0, 0>>
Low64(x) == <<LimbAt(x, 1), LimbAt(x, 2), LimbAt(x, 3), LimbAt(x, 4)>>

RECURSIVE AddCarry(_, _, _, _, _)
AddCarry(a, b, i, n, carry) ==
    IF i > n THEN <<carry>>
    ELSE LET s == LimbAt(a, i) + LimbAt(b, i) + carry
         IN  <<s % LB>> \o AddCarry(a, b, i + 1, n, s \div LB)

AddBig(a, b) == AddCarry(a, b, 1, Max(Len(a), Len(b)), 0)

RECURSIVE MulCarry(_, _, _, _)
MulCarry(a, k, i, carry) ==
    IF i > Len(a) THEN <<carry>>
    ELSE LET s == a[i] * k + carry
         IN  <<s % LB>> \o MulCarry(a, k, i + 1, s \div LB)

\* a * k for 0 <= k < 2^15
MulSmall(a, k) == MulCarry(a, k, 1, 0)

ShiftLimbs(a, n) == [i \in 1..n |-> 0] \o a

\* number of significant bits of a limb
LimbBitLen(l) == IF l = 0 THEN 0 ELSE CHOOSE k \in 1..16 : 2^(k-1) <= l /\ l < 2^k

BitLen(x) ==
    LET nz == {i \in DOMAIN x : x[i] # 0}
    IN  IF nz = {} THEN 0
        ELSE LET top == CHOOSE i \in nz : \A j \in nz : j <= i
             IN  16 * (top - 1) + LimbBitLen(x[top])

\* bit i (i >= 1, least significant first) of x
BitAt(x, i) == (LimbAt(x, ((i - 1) \div 16) + 1) \div 2^((i - 1) % 16)) % 2

\* x with its k low bits cleared
ClearLow(x, k) ==
    [i \in DOMAIN x |->
        IF 16 * i <= k THEN 0
        ELSE IF 16 * (i - 1) >= k THEN x[i]
        ELSE (x[i] \div 2^(k - 16 * (i - 1))) * 2^(k - 16 * (i - 1))]

\* 2^k as limbs
PowTwo(k) == ShiftLimbs(<<2^(k % 16)>>, k \div 16)

\* The integer x as an IEEE-754 double: 53 significant bits, round to
\* nearest, ties to even.
Round53(x) ==
    LET n == BitLen(x)
    IN  IF n <= 53 THEN x
        ELSE LET k      == n - 53
                 guard  == BitAt(x, k)
                 sticky == \E i \in 1..(k - 1) : BitAt(x, i) = 1
                 lsb    == BitAt(x, k + 1)
                 down   == ClearLow(x, k)
             IN  IF guard = 1 /\ (sticky \/ lsb = 1)
                 THEN AddBig(down, PowTwo(k))
                 ELSE down

-----------------------------------------------------------------------------
(* SeededRandom *)

LcgA == 1664525
LcgC == 1013904223

SeedStrings == {"test-seed-1", "a", "pine", "sunflower",
                "00000000000000000000000000000000",
                "0123456789abcdef0123456789abcdef"}

\* createHash('sha256').update(seedString).digest('hex').substring(0, 15),
\* as hexadecimal digit values
HashHex15(s) ==
    CASE s = "test-seed-1" -> <<6,5,10,10,3,5,15,15,1,12,10,8,14,2,13>>
      [] s = "a"           -> <<12,10,9,7,8,1,1,2,12,10,1,11,11,13,12>>
      [] s = "pine"        -> <<13,2,9,2,2,3,7,2,1,3,1,2,3,9,3>>
      [] s = "sunflower"   -> <<8,15,3,9,8,8,8,6,12,3,2,6,11,5,15>>
      [] s = "00000000000000000000000000000000"
                           -> <<8,4,14,0,12,0,14,10,15,10,10,9,5,10,3>>
      [] s = "0123456789abcdef0123456789abcdef"
                           -> <<3,14,11,1,11,13,4,3,9,9,4,7,14,11,7>>

\* the mathematical value of 15 hexadecimal digits, as 4 limbs
HexValue(h) ==
    << ((h[12] * 16 + h[13]) * 16 + h[14]) * 16 + h[15],
       ((h[8]  * 16 + h[9])  * 16 + h[10]) * 16 + h[11],
       ((h[4]  * 16 + h[5])  * 16 + h[6])  * 16 + h[7],
       (h[1]   * 16 + h[2])  * 16 + h[3] >>

\* parseInt(hex, 16): the value as a Number (a double)
ParseInt16(h) == Low64(Round53(HexValue(h)))

\* a constructor that keeps the seed of a generator that already exists
NewSeededRandomKept(s) ==
    IF rng = NoRng THEN ParseInt16(HashHex15(s)) ELSE rng

\* new SeededRandom(seedString)
NewSeededRandom(s) == ParseInt16(HashHex15(s))

\* seed * 1664525, exactly
MulLcgA(x) ==
    AddBig(MulSmall(x, LcgA % LB), ShiftLimbs(MulSmall(x, LcgA \div LB), 1))

\* SeededRandom.next(): the new seed,
\*   (this.seed * 1664525 + 1013904223) % 4294967296 in double arithmetic.
\* The value returned by next() is NextSeed / 2^32.
NextSeed(x) ==
    LET prod == Round53(MulLcgA(x))
        sum  == Round53(AddBig(prod, <<LcgC % LB, LcgC \div LB>>))
    IN  Low32(sum)

\* floor(x * d / 2^32) for a seed x < 2^32 and 0 <= d < 2^23, byte by byte
MulShift32(x, d) ==
    LET b0 == x[1] % 256
        b1 == x[1] \div 256
        b2 == x[2] % 256
        b3 == x[2] \div 256
        a0 == b0 * d
        a1 == (a0 \div 256) + b1 * d
        a2 == (a1 \div 256) + b2 * d
        a3 == (a2 \div 256) + b3 * d
    IN  a3 \div 256

\* SeededRandom.nextFloat(min, max) after the seed has advanced to x, in the
\* fixed-point unit of min and max: floor of min + next() * (max - min)
NextFloat(x, min, max) == min + MulShift32(x, max - min)

\* nextInt that rounds the draw up instead of down
NextIntCeil(x, min, max) == NextFloat(x, min, max) + 1

\* SeededRandom.nextInt(min, max) after the seed has advanced to x:
\* Math.floor(nextFloat(min, max))
NextInt(x, min, max) == NextFloat(x, min, max)

\* next() > num / den, exactly: seed * den > num * 2^32  (den < 2^15)
DrawGreater(x, num, den) ==
    LET p == MulSmall(<<x[1], x[2]>>, den)
    IN  p[3] > num \/ (p[3] = num /\ (p[1] # 0 \/ p[2] # 0))

-----------------------------------------------------------------------------
(* Math helpers on fixed-point values *)

TQ == 5 * 100      \* cos / sin units per 1.0

RECURSIVE SqrtSearch(_, _, _)
SqrtSearch(n, lo, hi) ==
    IF lo >= hi THEN lo
    ELSE LET mid == (lo + hi + 1) \div 2
         IN  IF mid * mid <= n THEN SqrtSearch(n, mid, hi)
             ELSE SqrtSearch(n, lo, mid - 1)

\* floor(sqrt(n)) for 0 <= n < 2^30
ISqrt(n) == SqrtSearch(n, 0, 32767)

\* sin of x (AQ units, 0..180 degrees), in TQ units
SinHalfTurn(x) ==
    LET p == x * (180 * AQ - x)
    IN  (4 * p * TQ) \div (40500 * AQ * AQ - p)

\* Math.sin of an angle given in AQ units of a degree, in TQ units
Sin(a) ==
    LET r == a % (360 * AQ)
    IN  IF r <= 180 * AQ THEN SinHalfTurn(r) ELSE 0 - SinHalfTurn(r - 180 * AQ)

\* Math.cos of an angle given in AQ units of a degree, in TQ units
Cos(a) == Sin(a + 90 * AQ)

Vector2(x, y) == [x |-> x, y |-> y]

Color(r, g, b) == [r |-> r, g |-> g, b |-> b, a |-> Q]

Entity(center, radius, base, highlight, type, dist) ==
    [center |-> center, radius |-> radius, baseColor |-> base,
     highlightColor |-> highlight, type |-> type, distFromRoot |-> dist]

\* a constructor that stores the distance along the parent only: its length
BranchFromParent(start, end, strokeWidth, control, length, dist, children, entities) ==
    [start |-> start, end |-> end, strokeWidth |-> strokeWidth,
     control |-> control, length |-> length,
     distFromRoot |-> IF dist = 0 THEN 0 ELSE length,
     children |-> children, entities |-> entities]

\* new Branch(start, end, strokeWidth, control, length, distFromRoot, children, entities)
Branch(start, end, strokeWidth, control, length, dist, children, entities) ==
    [start |-> start, end |-> end, strokeWidth |-> strokeWidth,
     control |-> control, length |-> length, distFromRoot |-> dist,
     children |-> children, entities |-> entities]

\* const coerceIn = (val, min, max) => Math.max(min, Math.min(val, max))
coerceIn(val, min, max) == Max(min, Min(val, max))

-----------------------------------------------------------------------------
(* pine.ts: generateFullTree.  Every operator takes the values computed so
   far as arguments, in the order the code computes them. *)

\* the seeds after each of the next k calls of next(), in call order
RECURSIVE Draws(_, _)
DrawsJoin(left, k) == left \o Draws(left[Len(left)], k)

Draws(seed, k) ==
    IF k <= 0 THEN <<>>
    ELSE IF k = 1 THEN <<NextSeed(seed)>>
    ELSE DrawsJoin(Draws(seed, k \div 2), k - k \div 2)

\* start + length * (cos, sin) of the heading, given in AQ units
EndPoint(start, length, heading) ==
    Vector2(start.x + (length * Cos(heading)) \div TQ,
            start.y + (length * Sin(heading)) \div TQ)

\* 2. the control point: the midpoint moved perpLen along the perpendicular
PineControl(start, end, perpLen) ==
    LET dx           == end.x - start.x
        dy           == end.y - start.y
        branchLength == ISqrt(dx * dx + dy * dy)
        perpX        == IF branchLength # 0
                        THEN ((0 - dy) * perpLen) \div branchLength ELSE 0
        perpY        == IF branchLength # 0
                        THEN (dx * perpLen) \div branchLength ELSE 0
    IN  Vector2(start.x + dx \div 2 + perpX, start.y + dy \div 2 + perpY)

\* the width without its floor
PineStrokeWidthBare(x, depth) == depth * 5 * Q + NextFloat(x, 0 - Q, Q)

\* Math.max(2, depth * 5 + rand.nextFloat(-1, 1)), the draw having left seed x
PineStrokeWidth(x, depth) == Max(2 * Q, depth * 5 * Q + NextFloat(x, 0 - Q, Q))

\* draws made by one pass of the entity loop: the cone draw is made only
\* when depth <= 4
PineEntityDraws(depth) == IF depth <= 4 THEN 8 ELSE 7

\* one pass of the entity loop, reading the draws d[o + 1], d[o + 2], ...
PineEntity(d, o, start, end, length, depth, currentDist) ==
    LET k       == PineEntityDraws(depth) - 7
        radius  == NextFloat(d[o + 1], 15 * Q, 25 * Q)
        t       == NextFloat(d[o + 2], FQ \div 10, FQ)
        px      == ((FQ - t) * start.x + t * end.x) \div FQ
        py      == ((FQ - t) * start.y + t * end.y) \div FQ
        offsetX == NextFloat(d[o + 3], 0 - 15 * Q, 15 * Q)
        offsetY == NextFloat(d[o + 4], 0 - 15 * Q, 15 * Q)
        center  == Vector2(px + offsetX, py + offsetY)
        entityDist == currentDist + (length * t) \div FQ
        isCone  == depth <= 4 /\ DrawGreater(d[o + 5], 23, 25)
        c1      == d[o + 5 + k]
        c2      == d[o + 6 + k]
        c3      == d[o + 7 + k]
    IN  IF isCone
        THEN LET r == 100 * Q + NextFloat(c1, 0, 40 * Q)
                 g == 70 * Q + NextFloat(c2, 0, 30 * Q)
                 b == 40 * Q + NextFloat(c3, 0, 20 * Q)
             IN  Entity(center, (radius * 9) \div 10, Color(r, g, b),
                        Color(Min(255 * Q, r + 40 * Q), Min(255 * Q, g + 40 * Q),
                              Min(255 * Q, b + 40 * Q)),
                        "fruit", entityDist)
        ELSE LET r == 20 * Q + NextFloat(c1, 0, 20 * Q)
                 g == 60 * Q + NextFloat(c2, 0, 40 * Q)
                 b == 30 * Q + NextFloat(c3, 0, 20 * Q)
             IN  Entity(center, radius, Color(r, g, b),
                        Color(r + 30 * Q, g + 30 * Q, b + 30 * Q),
                        "leaf", entityDist)

\* for (let i = 0; i < count; i++) { ... entities.push(...) } on the draws d
PineEntityLoop(d, count, start, end, length, depth, currentDist) ==
    [list |-> [i \in 1..count |->
                  PineEntity(d, (i - 1) * PineEntityDraws(depth), start, end,
                             length, depth, currentDist)],
     seed |-> d[Len(d)]]

\* 4. entity generation, rand.nextInt(6, 10) having left seed s8
PineEntities(s8, start, end, length, depth, currentDist) ==
    PineEntityLoop(Draws(s8, NextInt(s8, 6, 10) * PineEntityDraws(depth)),
                   NextInt(s8, 6, 10), start, end, length, depth, currentDist)

\* return new Branch(...), and rand's seed at that point
PineReturn(start, end, strokeWidth, control, length, currentDist, children, ents) ==
    [b    |-> Branch(start, end, strokeWidth, control, length, currentDist,
                     children, ents.list),
     seed |-> ents.seed]

\* the code after the branching logic, which left the seed s7
PineAfterChildren(d, start, end, length, depth, currentDist, children, s7) ==
    PineReturn(start, end, PineStrokeWidth(d[3], depth),
               PineControl(start, end,
                           (NextFloat(d[2], 0 - FQ \div 20, FQ \div 20) * length)
                               \div FQ),
               length, currentDist, children,
               IF depth <= 5
               THEN PineEntities(NextSeed(s7), start, end, length, depth, currentDist)
               ELSE [list |-> <<>>, seed |-> s7])

RECURSIVE generateFullTree(_, _, _, _, _, _)
RECURSIVE PineSides(_, _, _, _, _, _, _, _)

PineSideJoin(child, rest) ==
    [list |-> <<child>> \o rest.list, seed |-> rest.seed]

\* the rest of the side-branch loop after the child of pass i was pushed
PineSideRest(child, i, count, end, length, angle, depth, currentDist) ==
    PineSideJoin(child.b, PineSides(child.seed, i + 1, count, end, length, angle,
                                    depth, currentDist))

\* pass i of the side-branch loop on its three draws d
PineSide(d, i, count, end, length, angle, depth, currentDist) ==
    LET sideDir        == IF DrawGreater(d[1], 1, 2) THEN 1 ELSE 0 - 1
        angleVariation == NextFloat(d[2], 60 * AQ, 85 * AQ) * sideDir
        newAngle       == angle + angleVariation
        newLength      == (length * NextFloat(d[3], FQ \div 2, (7 * FQ) \div 10))
                              \div FQ
    IN  IF depth > 1
        THEN PineSideRest(generateFullTree(d[3], end, newLength, newAngle,
                                           depth - 1, currentDist + length),
                          i, count, end, length, angle, depth, currentDist)
        ELSE PineSides(d[3], i + 1, count, end, length, angle, depth, currentDist)

\* for (let i = 0; i < sideBranchCount; i++) { ... }: the children pushed
\* from pass i on, and the seed afterwards
PineSides(seed, i, count, end, length, angle, depth, currentDist) ==
    IF i >= count THEN [list |-> <<>>, seed |-> seed]
    ELSE PineSide(Draws(seed, 3), i, count, end, length, angle, depth, currentDist)

\* a side-branch count that reaches 3
PineWhorlUpToThree(s6, end, length, angle, depth, currentDist) ==
    PineSides(s6, 0, NextIntCeil(s6, 1, 3), end, length, angle, depth, currentDist)

\* B. side branches, rand.nextInt(1, 3) having left seed s6
PineWhorl(s6, end, length, angle, depth, currentDist) ==
    PineSides(s6, 0, NextInt(s6, 1, 3), end, length, angle, depth, currentDist)

PineChildren(leader, sides) ==
    [list |-> <<leader>> \o sides.list, seed |-> sides.seed]

\* the branching logic after the leader was pushed
PineAfterLeader(leader, end, length, angle, depth, currentDist) ==
    PineChildren(leader.b, PineWhorl(NextSeed(leader.seed), end, length, angle,
                                     depth, currentDist))

\* A. the central leader, on its two draws l, then the side branches
PineBranching(l, end, length, angle, depth, currentDist) ==
    PineAfterLeader(
        generateFullTree(l[2], end,
                         (length * NextFloat(l[2], (85 * FQ) \div 100,
                                             (95 * FQ) \div 100)) \div FQ,
                         angle + NextFloat(l[1], 0 - 10 * AQ, 10 * AQ),
                         depth - 1, currentDist + length),
        end, length, angle, depth, currentDist)

PineWithChildren(d, start, end, length, depth, currentDist, cs) ==
    PineAfterChildren(d, start, end, length, depth, currentDist, cs.list, cs.seed)

\* 3. branching logic, the end point being known
PineFromEnd(d, start, end, length, angle, depth, currentDist) ==
    PineWithChildren(d, start, end, length, depth, currentDist,
                     IF depth > 0
                     THEN PineBranching(Draws(d[3], 2), end, length, angle, depth,
                                        currentDist)
                     ELSE [list |-> <<>>, seed |-> d[3]])

\* the body of generateFullTree on its first three draws d
PineFromDraws(d, start, length, angle, depth, currentDist) ==
    PineFromEnd(d, start,
                EndPoint(start, length, angle + NextFloat(d[1], 0 - 10 * AQ, 10 * AQ)),
                length, angle, depth, currentDist)

\* generateFullTree(rand, start, length, angle, depth, currentDist): the
\* Branch built, and rand's seed afterwards
generateFullTree(seed, start, length, angle, depth, currentDist) ==
    PineFromDraws(Draws(seed, 3), start, length, angle, depth, currentDist)

-----------------------------------------------------------------------------
(* sunflower.ts: generateSunflower *)

SeedCount == 150

\* 1. Petals (ray florets): loop index i of petalCount, draws d[2 i + 1], d[2 i + 2]
SunflowerPetal(d, i, petalCount, end, currentDist) ==
    LET pAngle == (360 * AQ * i) \div petalCount
        r      == 110 * Q + NextFloat(d[2 * i + 1], 0 - 10 * Q, 10 * Q)
        pX     == end.x + (Cos(pAngle) * r) \div TQ
        pY     == end.y + (Sin(pAngle) * r) \div TQ
    IN  Entity(Vector2(pX, pY), NextFloat(d[2 * i + 2], 35 * Q, 45 * Q),
               Color(255 * Q, 204 * Q, 0), Color(255 * Q, 230 * Q, 100 * Q),
               "petal", currentDist)

\* the same loop pass, had the seeds not been staggered
SunflowerSeedAtOnce(d, o, i, end, currentDist) ==
    Entity(end, NextFloat(d[o + i + 1], 6 * Q, 9 * Q), Color(40 * Q, 25 * Q, 10 * Q),
           Color(70 * Q, 45 * Q, 20 * Q), "seed", currentDist)

\* 2. Seeds (disc florets): loop index i, draw d[o + i + 1]
SunflowerSeed(d, o, i, end, currentDist) ==
    LET r        == ISqrt(7 * 7 * Q * Q * i)
        theta    == (i * 137508 * AQ) \div 1000
        sX       == end.x + (r * Cos(theta)) \div TQ
        sY       == end.y + (r * Sin(theta)) \div TQ
        isCenter == 10 * i < SeedCount * 3
        rCol     == IF isCenter THEN 40 * Q ELSE 60 * Q
        gCol     == IF isCenter THEN 25 * Q ELSE 40 * Q
        bCol     == IF isCenter THEN 10 * Q ELSE 15 * Q
    IN  Entity(Vector2(sX, sY), NextFloat(d[o + i + 1], 6 * Q, 9 * Q),
               Color(rCol, gCol, bCol),
               Color(rCol + 30 * Q, gCol + 20 * Q, bCol + 10 * Q),
               "seed", currentDist + (i * Q) \div 2)

\* the two loops of the head on their draws d: petals, then seeds
SunflowerHeadLoops(d, petalCount, end, currentDist) ==
    [list |-> [j \in 1..petalCount |->
                  SunflowerPetal(d, j - 1, petalCount, end, currentDist)]
              \o
              [j \in 1..SeedCount |->
                  SunflowerSeed(d, 2 * petalCount, j - 1, end, currentDist)],
     seed |-> d[Len(d)]]

\* the flower head, rand.nextInt(20, 30) having left seed s1
SunflowerHeadFrom(s1, end, currentDist) ==
    SunflowerHeadLoops(Draws(s1, 2 * NextInt(s1, 20, 30) + SeedCount),
                       NextInt(s1, 20, 30), end, currentDist)

\* else branch of segmentsLeft > 0: the entities of the head and rand's seed
SunflowerHead(seed, end, currentDist) ==
    SunflowerHeadFrom(NextSeed(seed), end, currentDist)

\* the leaf of a segment with 1 < segmentsLeft < 7, its draw having left seed x
SunflowerLeaf(x, start, end, length, segmentsLeft, currentDist) ==
    LET leafDir   == IF segmentsLeft % 2 = 0 THEN 0 - 1 ELSE 1
        leafStart == Vector2((start.x + end.x) \div 2, (start.y + end.y) \div 2)
    IN  Entity(Vector2(leafStart.x + 40 * Q * leafDir, leafStart.y - 10 * Q),
               NextFloat(x, 50 * Q, 70 * Q),
               Color(50 * Q, 120 * Q, 50 * Q), Color(80 * Q, 160 * Q, 80 * Q),
               "leaf", currentDist + length \div 2)

\* leaves up to the neck of the stalk
SunflowerHasLeafAtNeck(segmentsLeft) == segmentsLeft < 7

SunflowerHasLeaf(segmentsLeft) == segmentsLeft < 7 /\ segmentsLeft > 1

\* return new Branch(...), rest holding the entities or the child
SunflowerReturn(start, end, strokeWidth, control, length, currentDist, children, entities, seed) ==
    [b    |-> Branch(start, end, strokeWidth, control, length, currentDist,
                     children, entities),
     seed |-> seed]

\* the stalk segment without the child pushed
SunflowerWithoutChild(start, end, strokeWidth, control, length, currentDist, entities, child) ==
    SunflowerReturn(start, end, strokeWidth, control, length, currentDist, <<>>, entities, child.seed)

SunflowerWithChild(start, end, strokeWidth, control, length, currentDist, entities, child) ==
    SunflowerReturn(start, end, strokeWidth, control, length, currentDist,
                    <<child.b>>, entities, child.seed)

SunflowerWithHead(start, end, strokeWidth, control, length, currentDist, head) ==
    SunflowerReturn(start, end, strokeWidth, control, length, currentDist,
                    <<>>, head.list, head.seed)

RECURSIVE generateSunflower(_, _, _, _, _, _)

\* the next segment handed currentDist instead of currentDist + length
SunflowerUpSameDist(u, start, end, strokeWidth, control, length, angle, segmentsLeft, currentDist) ==
    SunflowerWithChild(start, end, strokeWidth, control, length, currentDist,
        IF SunflowerHasLeaf(segmentsLeft)
        THEN <<SunflowerLeaf(u[1], start, end, length, segmentsLeft, currentDist)>>
        ELSE <<>>,
        generateSunflower(u[Len(u)], end, (length * 95) \div 100,
                          angle + NextFloat(u[Len(u)], 0 - 2 * AQ, 2 * AQ),
                          segmentsLeft - 1, currentDist))

\* segmentsLeft > 0: the leaf, if any, and the next segment, on the draws u
\* made after the first three (the leaf radius if there is a leaf, then the
\* angle of the next segment)
SunflowerUp(u, start, end, strokeWidth, control, length, angle, segmentsLeft, currentDist) ==
    SunflowerWithChild(start, end, strokeWidth, control, length, currentDist,
        IF SunflowerHasLeaf(segmentsLeft)
        THEN <<SunflowerLeaf(u[1], start, end, length, segmentsLeft, currentDist)>>
        ELSE <<>>,
        generateSunflower(u[Len(u)], end, (length * 95) \div 100,
                          angle + NextFloat(u[Len(u)], 0 - 2 * AQ, 2 * AQ),
                          segmentsLeft - 1, currentDist + length))

\* the code after the end point is known
SunflowerFromEnd(d, start, end, length, angle, segmentsLeft, currentDist) ==
    LET control     == Vector2((start.x + end.x) \div 2
                                   + NextFloat(d[2], 0 - 10 * Q, 10 * Q),
                               (start.y + end.y) \div 2
                                   + NextFloat(d[3], 0 - 10 * Q, 10 * Q))
        strokeWidth == Max(8 * Q, (segmentsLeft * 35 * Q) \div 10)
    IN  IF segmentsLeft > 0
        THEN SunflowerUp(Draws(d[3], IF SunflowerHasLeaf(segmentsLeft) THEN 2 ELSE 1),
                         start, end, strokeWidth, control, length, angle,
                         segmentsLeft, currentDist)
        ELSE SunflowerWithHead(start, end, strokeWidth, control, length, currentDist,
                               SunflowerHead(d[3], end, currentDist))

\* the body of generateSunflower on its first three draws d
SunflowerFromDraws(d, start, length, angle, segmentsLeft, currentDist) ==
    SunflowerFromEnd(d, start,
                     EndPoint(start, length, angle + NextFloat(d[1], 0 - 5 * AQ, 5 * AQ)),
                     length, angle, segmentsLeft, currentDist)

generateSunflower(seed, start, length, angle, segmentsLeft, currentDist) ==
    SunflowerFromDraws(Draws(seed, 3), start, length, angle, segmentsLeft, currentDist)

-----------------------------------------------------------------------------
(* calculateBounds, getMaxDist and the auto-fit of generateVideo *)

Infinity == 2^30

\* An operator's arguments are evaluated on demand; a loop's accumulator is
\* evaluated before the next iteration, as the code does.
Evaluated(v) == v = v

NoBounds == [minX |-> Infinity, maxX |-> 0 - Infinity,
             minY |-> Infinity, maxY |-> 0 - Infinity]

Min4(a, b, c, d) == Min(Min(a, b), Min(c, d))
Max4(a, b, c, d) == Max(Max(a, b), Max(c, d))

\* the four assignments made for the branch's own points
BoundsOfBranch(cb, b) ==
    [minX |-> Min4(cb.minX, b.start.x, b.end.x, b.control.x),
     maxX |-> Max4(cb.maxX, b.start.x, b.end.x, b.control.x),
     minY |-> Min4(cb.minY, b.start.y, b.end.y, b.control.y),
     maxY |-> Max4(cb.maxY, b.start.y, b.end.y, b.control.y)]

\* the same for the entity's centre alone
BoundsOfCenter(cb, e) ==
    [minX |-> Min(cb.minX, e.center.x), maxX |-> Max(cb.maxX, e.center.x),
     minY |-> Min(cb.minY, e.center.y), maxY |-> Max(cb.maxY, e.center.y)]

\* the four assignments made for one entity's disc
BoundsOfEntity(cb, e) ==
    [minX |-> Min(cb.minX, e.center.x - e.radius),
     maxX |-> Max(cb.maxX, e.center.x + e.radius),
     minY |-> Min(cb.minY, e.center.y - e.radius),
     maxY |-> Max(cb.maxY, e.center.y + e.radius)]

\* b.entities.forEach over the entities lo..hi, in list order
RECURSIVE BoundsOfEntities(_, _, _, _)
BoundsOfEntities(cb, es, lo, hi) ==
    IF lo > hi THEN cb
    ELSE IF lo = hi THEN BoundsOfEntity(cb, es[lo])
    ELSE LET mid  == (lo + hi) \div 2
             left == BoundsOfEntities(cb, es, lo, mid)
         IN  IF Evaluated(left) THEN BoundsOfEntities(left, es, mid + 1, hi)
             ELSE left

RECURSIVE calculateBounds(_, _)
RECURSIVE BoundsOfChildren(_, _, _)
BoundsOfChildren(cb, cs, i) ==
    IF i > Len(cs) THEN cb
    ELSE LET child == calculateBounds(cs[i], cb)
         IN  IF Evaluated(child) THEN BoundsOfChildren(child, cs, i + 1)
             ELSE child

calculateBounds(b, currentBounds) ==
    LET own  == BoundsOfBranch(currentBounds, b)
        ents == BoundsOfEntities(own, b.entities, 1, Len(b.entities))
    IN  IF Evaluated(own) /\ Evaluated(ents)
        THEN BoundsOfChildren(ents, b.children, 1)
        ELSE own

\* every branch of the tree, parent before children, children in list order
RECURSIVE AllBranches(_)
RECURSIVE AllBranchesOf(_, _)
AllBranchesOf(cs, i) ==
    IF i > Len(cs) THEN <<>>
    ELSE AllBranches(cs[i]) \o AllBranchesOf(cs, i + 1)

AllBranches(b) == <<b>> \o AllBranchesOf(b.children, 1)

\* the far end of the branch itself, children not looked at
OwnMaxDist(b) == b.distFromRoot + b.length

\* pine.ts: getMaxDist
RECURSIVE getMaxDist(_)
RECURSIVE MaxDistOfChildren(_, _, _)
MaxDistOfChildren(max, cs, i) ==
    IF i > Len(cs) THEN max
    ELSE LET child == Max(max, getMaxDist(cs[i]))
         IN  IF Evaluated(child) THEN MaxDistOfChildren(child, cs, i + 1)
             ELSE child

getMaxDist(b) == MaxDistOfChildren(b.distFromRoot + b.length, b.children, 1)

\* sunflower.ts: getMaxDist, which also looks at the entities' distances
RECURSIVE MaxDistOfEntities(_, _, _, _)
MaxDistOfEntities(max, es, lo, hi) ==
    IF lo > hi THEN max
    ELSE IF lo = hi THEN Max(max, es[lo].distFromRoot)
    ELSE LET mid  == (lo + hi) \div 2
             left == MaxDistOfEntities(max, es, lo, mid)
         IN  IF Evaluated(left) THEN MaxDistOfEntities(left, es, mid + 1, hi)
             ELSE left

\* the maximum so far, the children of the stalk not looked at
MaxDistOfStalkSkipped(max, cs, i) == max

RECURSIVE getMaxDistSunflower(_)
RECURSIVE MaxDistOfStalk(_, _, _)
MaxDistOfStalk(max, cs, i) ==
    IF i > Len(cs) THEN max
    ELSE LET child == Max(max, getMaxDistSunflower(cs[i]))
         IN  IF Evaluated(child) THEN MaxDistOfStalk(child, cs, i + 1)
             ELSE child

getMaxDistSunflower(b) ==
    LET ents == MaxDistOfEntities(b.distFromRoot + b.length, b.entities,
                                  1, Len(b.entities))
    IN  IF Evaluated(ents) THEN MaxDistOfStalk(ents, b.children, 1) ELSE ents

\* CONFIG
Width   == 1080
Height  == 1080
Padding == 80

\* the fit with Math.max(scaleX, scaleY) in place of Math.min
AutoFitLarger(bs) ==
    LET treeWidth  == bs.maxX - bs.minX
        treeHeight == bs.maxY - bs.minY
        availW     == Width - Padding * 2
        availH     == Height - Padding * 2
        useX       == availW * treeHeight >= availH * treeWidth
        sn         == IF useX THEN availW ELSE availH
        sd         == IF useX THEN treeWidth ELSE treeHeight
    IN  [sn  |-> sn, sd |-> sd,
         oxn |-> Width * sd - (2 * bs.minX + treeWidth) * sn,
         oyn |-> 2 * (Height - Padding) * sd - 2 * bs.maxY * sn]

\* The fit is kept exact: scale = sn / sd canvas pixels per tree unit (1/Q),
\* offsetX = oxn / (2 sd), offsetY = oyn / (2 sd).
AutoFit(bs) ==
    LET treeWidth  == bs.maxX - bs.minX
        treeHeight == bs.maxY - bs.minY
        availW     == Width - Padding * 2
        availH     == Height - Padding * 2
        \* Math.min(scaleX, scaleY), scaleX = availW / treeWidth
        useX       == availW * treeHeight <= availH * treeWidth
        sn         == IF useX THEN availW ELSE availH
        sd         == IF useX THEN treeWidth ELSE treeHeight
    IN  [sn  |-> sn, sd |-> sd,
         oxn |-> Width * sd - (2 * bs.minX + treeWidth) * sn,
         oyn |-> 2 * (Height - Padding) * sd - 2 * bs.maxY * sn]

-----------------------------------------------------------------------------
(* flattenTreeOrganic.  A progress distance is the exact fraction
   p.num / p.den of tree units (1/Q); canvas coordinates are in 1/CQ pixel
   and opacities in 1/OQ. *)

CQ == 5 + 5
OQ == 10 * 100

Progress(num, den) == [num |-> num, den |-> den]

\* progressDistance > dist
ProgressAfter(p, dist) == p.num > dist * p.den

\* the fraction of the distance travelled along the branch, wrapping around
LocalTWrapped(b, p) ==
    LET n == p.num - b.distFromRoot * p.den
        d == b.length * p.den
    IN  IF d = 0 THEN [n |-> 1, d |-> 1] ELSE [n |-> n % d, d |-> d]

\* (progressDistance - startDist) / b.length, coerced into [0, 1], as the
\* exact fraction n / d; a zero length divides a positive number: Infinity
LocalT(b, p) ==
    LET n == p.num - b.distFromRoot * p.den
        d == b.length * p.den
    IN  IF d = 0 THEN [n |-> 1, d |-> 1]
        ELSE IF n >= d THEN [n |-> 1, d |-> 1]
        ELSE [n |-> coerceIn(n, 0, d), d |-> d]

\* x * scale + offsetX
TransformX(fit, x) == ((2 * x * fit.sn + fit.oxn) * CQ) \div (2 * fit.sd)
\* y * scale + offsetY
TransformY(fit, y) == ((2 * y * fit.sn + fit.oyn) * CQ) \div (2 * fit.sd)

TransformPoint(fit, v) == Vector2(TransformX(fit, v.x), TransformY(fit, v.y))

\* the two weights exchanged
MixSwapped(lt, a, b) == ((lt.d - lt.n) * b + lt.n * a) \div lt.d

\* omt * a + localT * b
Mix(lt, a, b) == ((lt.d - lt.n) * a + lt.n * b) \div lt.d

\* pine.ts: b.strokeWidth * scale * localT
PineVisibleStroke(b, fit, lt) ==
    (((b.strokeWidth * fit.sn * CQ) \div fit.sd) * lt.n) \div lt.d

\* sunflower.ts: b.strokeWidth * scale
SunflowerVisibleStroke(b, fit, lt) == (b.strokeWidth * fit.sn * CQ) \div fit.sd

SimpleBranch(start, end, strokeWidth, control) ==
    [start |-> start, end |-> end, strokeWidth |-> strokeWidth,
     control |-> control]

\* the partial curve pushed for a branch whose localT is positive
VisibleBranch(archetype, b, p, fit) ==
    LET lt       == LocalT(b, p)
        tStart   == TransformPoint(fit, b.start)
        tEnd     == TransformPoint(fit, b.end)
        tControl == TransformPoint(fit, b.control)
        curControlX == Mix(lt, tStart.x, tControl.x)
        curControlY == Mix(lt, tStart.y, tControl.y)
        q1X      == Mix(lt, tControl.x, tEnd.x)
        q1Y      == Mix(lt, tControl.y, tEnd.y)
        curEndX  == Mix(lt, curControlX, q1X)
        curEndY  == Mix(lt, curControlY, q1Y)
        visibleStroke == IF archetype = "pine"
                         THEN PineVisibleStroke(b, fit, lt)
                         ELSE SunflowerVisibleStroke(b, fit, lt)
    IN  SimpleBranch(tStart, Vector2(curEndX, curEndY), visibleStroke,
                     Vector2(curControlX, curControlY))

PineFadeSpeed(entity) == 150
SunflowerFadeSpeed(entity) == IF entity.type = "seed" THEN 50 ELSE 150

FadeSpeed(archetype, entity) ==
    IF archetype = "pine" THEN PineFadeSpeed(entity)
    ELSE SunflowerFadeSpeed(entity)

\* age / fadeSpeed, not coerced
FadePUnclamped(archetype, entity, p) ==
    LET age == p.num - entity.distFromRoot * p.den
        fs  == FadeSpeed(archetype, entity) * Q * p.den
    IN  IF age >= 3 * fs THEN 3 * OQ ELSE (age * OQ) \div fs

\* coerceIn(age / fadeSpeed, 0, 1), in 1/OQ
FadeP(archetype, entity, p) ==
    LET age == p.num - entity.distFromRoot * p.den
        fs  == FadeSpeed(archetype, entity) * Q * p.den
    IN  IF age >= fs THEN OQ ELSE coerceIn((age * OQ) \div fs, 0, OQ)

\* t * t * (3 - 2 * t), in 1/OQ
smoothStep(t) == (t * t * (3 * OQ - 2 * t)) \div (OQ * OQ)

\* opacity > 0.01
Visible(t) == t * t * (3 * OQ - 2 * t) > (OQ * OQ * OQ) \div 100

\* the test without the opacity floor
EntityShownAnyOpacity(archetype, entity, p) ==
    ProgressAfter(p, entity.distFromRoot)

\* the test made on an entity of an emitted branch
EntityShown(archetype, entity, p) ==
    /\ ProgressAfter(p, entity.distFromRoot)
    /\ Visible(FadeP(archetype, entity, p))

\* the copy pushed for an entity: centre and radius transformed, opacity set
VisibleEntity(archetype, entity, p, fit) ==
    [center         |-> TransformPoint(fit, entity.center),
     radius         |-> (entity.radius * fit.sn * CQ) \div fit.sd,
     baseColor      |-> entity.baseColor,
     highlightColor |-> entity.highlightColor,
     type           |-> entity.type,
     distFromRoot   |-> entity.distFromRoot,
     opacity        |-> smoothStep(FadeP(archetype, entity, p))]

\* progressDistance > startDist and localT > 0
BranchShown(b, p) == ProgressAfter(p, b.distFromRoot) /\ LocalT(b, p).n > 0

\* what one call appends for the branch itself, before it recurses
FlattenBranch(archetype, b, p, fit) ==
    IF BranchShown(b, p)
    THEN LET shown == SelectSeq(b.entities,
                                LAMBDA e : EntityShown(archetype, e, p))
         IN  [branchList |-> <<VisibleBranch(archetype, b, p, fit)>>,
              entityList |-> [i \in 1..Len(shown) |->
                                 VisibleEntity(archetype, shown[i], p, fit)]]
    ELSE [branchList |-> <<>>, entityList |-> <<>>]

RECURSIVE flattenTreeOrganic(_, _, _, _, _, _)
RECURSIVE FlattenChildren(_, _, _, _, _, _, _)
FlattenChildren(archetype, cs, i, branchList, entityList, p, fit) ==
    IF i > Len(cs)
    THEN [branchList |-> branchList, entityList |-> entityList]
    ELSE LET child == flattenTreeOrganic(archetype, cs[i], branchList,
                                         entityList, p, fit)
         IN  IF Evaluated(child)
             THEN FlattenChildren(archetype, cs, i + 1, child.branchList,
                                  child.entityList, p, fit)
             ELSE child

flattenTreeOrganic(archetype, b, branchList, entityList, p, fit) ==
    LET own == FlattenBranch(archetype, b, p, fit)
    IN  FlattenChildren(archetype, b.children, 1,
                        branchList \o own.branchList,
                        entityList \o own.entityList, p, fit)

-----------------------------------------------------------------------------
(* Visiting the branches and entities of a tree in another order *)

ItemsOfBranch(b) ==
    <<[kind |-> "branch", v |-> b]>> \o
    [i \in 1..Len(b.entities) |-> [kind |-> "entity", v |-> b.entities[i]]]

\* the branches and entities in the order calculateBounds visits them
RECURSIVE ItemsOfBranches(_, _, _)
ItemsOfBranches(bs, lo, hi) ==
    IF lo > hi THEN <<>>
    ELSE IF lo = hi THEN ItemsOfBranch(bs[lo])
    ELSE LET mid == (lo + hi) \div 2
         IN  ItemsOfBranches(bs, lo, mid) \o ItemsOfBranches(bs, mid + 1, hi)

AllItems(tree) ==
    LET bs == AllBranches(tree) IN ItemsOfBranches(bs, 1, Len(bs))

Orders == [rot : 0..MaxRotation, rev : BOOLEAN]

\* position in the code's order of the i-th item visited, of n
OrderIndex(order, i, n) ==
    LET j == ((i - 1 + (order.rot * n) \div (MaxRotation + 1)) % n) + 1
    IN  IF order.rev THEN n + 1 - j ELSE j

BoundsOfItem(cb, item) ==
    IF item.kind = "branch" THEN BoundsOfBranch(cb, item.v)
    ELSE BoundsOfEntity(cb, item.v)

\* the accumulation over the items visited lo-th to hi-th in the order
RECURSIVE BoundsInOrder(_, _, _, _, _)
BoundsInOrder(cb, items, order, lo, hi) ==
    IF lo > hi THEN cb
    ELSE IF lo = hi
         THEN BoundsOfItem(cb, items[OrderIndex(order, lo, Len(items))])
    ELSE LET mid  == (lo + hi) \div 2
             left == BoundsInOrder(cb, items, order, lo, mid)
         IN  IF Evaluated(left)
             THEN BoundsInOrder(left, items, order, mid + 1, hi)
             ELSE left

-----------------------------------------------------------------------------
(* The frame loop's compositor: filtering by type, occlusion, sorting *)

\* entities.filter(e => e.type === type)
OfType(es, type) == SelectSeq(es, LAMBDA e : e.type = type)

\* Math.sqrt(dx*dx + dy*dy) < leaf.radius * 0.9, for a radius that is not
\* negative: both sides squared
Within(leaf, fruit) ==
    LET dx == leaf.center.x - fruit.center.x
        dy == leaf.center.y - fruit.center.y
        r  == leaf.radius
    IN  /\ dx < r /\ 0 - dx < r /\ dy < r /\ 0 - dy < r
        /\ 100 * (dx * dx + dy * dy) < 81 * r * r

\* a callback that does not look at which of the two is lower on the canvas
CoversAnywhere(leaf, fruit) == Within(leaf, fruit)

\* the callback of leaves.some
Covers(leaf, fruit) ==
    IF leaf.center.y <= fruit.center.y THEN FALSE ELSE Within(leaf, fruit)

\* fruits.filter(fruit => !leaves.some(...))
visibleFruits(fruits, leaves) ==
    SelectSeq(fruits,
              LAMBDA f : ~ \E i \in 1..Len(leaves) : Covers(leaves[i], f))

\* the number a sort callback subtracts: center.y or distFromRoot
SortKey(e, by) == IF by = "center.y" THEN e.center.y ELSE e.distFromRoot

\* how many elements of the sorted acc have a key that is not greater
RECURSIVE NotGreater(_, _, _, _, _)
NotGreater(acc, by, key, lo, hi) ==
    IF lo >= hi THEN lo
    ELSE LET mid == (lo + hi + 1) \div 2
         IN  IF SortKey(acc[mid], by) <= key
             THEN NotGreater(acc, by, key, mid, hi)
             ELSE NotGreater(acc, by, key, lo, mid - 1)

InsertAt(acc, e, n) == SubSeq(acc, 1, n) \o <<e>> \o SubSeq(acc, n + 1, Len(acc))

RECURSIVE SortInto(_, _, _, _, _)
SortInto(acc, es, by, lo, hi) ==
    IF lo > hi THEN acc
    ELSE IF lo = hi
    THEN InsertAt(acc, es[lo], NotGreater(acc, by, SortKey(es[lo], by), 0, Len(acc)))
    ELSE LET mid  == (lo + hi) \div 2
             left == SortInto(acc, es, by, lo, mid)
         IN  IF Evaluated(left) THEN SortInto(left, es, by, mid + 1, hi)
             ELSE left

\* a sort that leaves the array as it was
SortNothing(es, by) == es

\* Array.prototype.sort((a, b) => key(a) - key(b)): ascending and stable
Sort(es, by) == SortInto(<<>>, es, by, 1, Len(es))

\* pine.ts: entities = leaves.concat(visibleFruits), both sorted by center.y
PineComposite(leaves, fruits) ==
    Sort(leaves, "center.y") \o Sort(visibleFruits(fruits, leaves), "center.y")

\* sunflower.ts: leaves, then (after the stalk) petals, then the sorted seeds
SunflowerComposite(es) ==
    OfType(es, "leaf") \o OfType(es, "petal")
        \o Sort(OfType(es, "seed"), "distFromRoot")

DrawList(archetype, es) ==
    IF archetype = "pine"
    THEN PineComposite(OfType(es, "leaf"), OfType(es, "fruit"))
    ELSE SunflowerComposite(es)

\* a drawing call: a branch stroked ("stroke"), its highlight stroked
\* ("highlight"), an entity drawn ("entity")
DrawCall(kind, v) == [kind |-> kind, v |-> v]

\* for (const e of es) drawEntity(ctx, e)
Discs(es) == [i \in 1..Len(es) |-> DrawCall("entity", es[i])]

\* pine.ts: every branch stroked, then the highlight of every branch that is
\* not thinner than 1, then the entities
DrawnPine(branches, entities) ==
    LET lit == SelectSeq(branches, LAMBDA b : ~(b.strokeWidth < CQ))
    IN  [i \in 1..Len(branches) |-> DrawCall("stroke", branches[i])]
            \o [i \in 1..Len(lit) |-> DrawCall("highlight", lit[i])]
            \o Discs(entities)

\* sunflower.ts: each branch stroked and, if wider than 2, its highlight
RECURSIVE DrawnStalk(_, _)
DrawnStalk(branches, i) ==
    IF i > Len(branches) THEN <<>>
    ELSE <<DrawCall("stroke", branches[i])>>
             \o (IF branches[i].strokeWidth > 2 * CQ
                 THEN <<DrawCall("highlight", branches[i])>> ELSE <<>>)
             \o DrawnStalk(branches, i + 1)

\* sunflower.ts: the leaves, the stalk, the petals, the sorted seeds
DrawnSunflower(branches, entities) ==
    Discs(OfType(entities, "leaf")) \o DrawnStalk(branches, 1)
        \o Discs(OfType(entities, "petal")) \o Discs(OfType(entities, "seed"))

Drawn(archetype, branches, entities) ==
    IF archetype = "pine" THEN DrawnPine(branches, entities)
    ELSE DrawnSunflower(branches, entities)

\* fs.writeFileSync(CONFIG.imageFilename, canvas.toBuffer('image/png'))
Saved(image) == [saved |-> TRUE, image |-> image]

-----------------------------------------------------------------------------
(* generateVideo: seed, structure, fit, frame loop *)

Plants == {"pine", "sunflower"}

Depths(a) == IF a = "pine" THEN 0..MaxDepth ELSE 0..MaxSegments

\* the tree, had the call scaled the entities of shown branches in place
TreeAfterFlattenInPlace(tree, p) ==
    IF BranchShown(tree, p) /\ Len(tree.entities) > 0
    THEN [tree EXCEPT !.entities = [i \in 1..Len(tree.entities) |->
             [tree.entities[i] EXCEPT !.radius = @ \div 2]]]
    ELSE tree

\* flattenTreeOrganic assigns to its two lists only: the tree after a call
TreeAfterFlatten(tree, p) == tree

\* the tree, had the compositor sorted a branch's own entities list
TreeAfterSortInPlace(tree) ==
    [tree EXCEPT !.entities = Sort(@, "center.y")]

\* the compositor filters the frame's entity list into new arrays and sorts
\* those: the tree after the compositor
TreeAfterComposite(tree) == tree

\* a growth distance that ends at maxDistance
GrowthMarginNone(a) == 0

\* the margin added to maxDistance: 200 in pine.ts, 300 in sunflower.ts
GrowthMargin(a) == IF a = "pine" THEN 200 ELSE 300

\* a growth distance with frame / totalFrames for t
CurrentGrowthDistShort(a, f, maxDist) ==
    Progress(f * (maxDist + GrowthMargin(a) * Q), TotalFrames)

\* currentGrowthDist of a frame: t * (maxDistance + margin), t = frame / (totalFrames - 1)
CurrentGrowthDist(a, f, maxDist) ==
    Progress(f * (maxDist + GrowthMargin(a) * Q), TotalFrames - 1)

Init ==
    /\ rng = NoRng /\ rngPrev = NoRng /\ rngCalls = 0 /\ rngOp = NoOp
    /\ pc = "start"
    /\ plant = "none" /\ configSeed = "" /\ maxDepth = 0 /\ run = 0
    /\ fullTree = NoTree /\ firstTree = NoTree
    /\ bounds = NoBounds /\ visitOrder = NoOrder /\ anyBounds = NoBounds
    /\ autoFit = NoFit /\ maxDistance = 0
    /\ frame = 0 /\ frameBranches = <<>> /\ frameEntities = <<>>
    /\ again = NoLists /\ growthDist = Progress(0, 1) /\ drawList = <<>>
    /\ stdinWrites = <<>> /\ stdinEnded = 0 /\ needDrain = FALSE
    /\ canvas = <<>> /\ snapshot = NoSnapshot
    /\ passes = <<>>

\* the script starts: CONFIG.seed is drawn, generateVideo is entered
Start(a, s, d) ==
    /\ pc = "start"
    /\ plant' = a /\ configSeed' = s /\ maxDepth' = d /\ run' = 1
    /\ pc' = "configured"
    /\ UNCHANGED <<rngVars, fullTree, firstTree, fitVars, drawVars, sinkVars, passes, canvasVars>>

\* const rand = new SeededRandom(CONFIG.seed)
NewRandom ==
    /\ pc = "configured"
    /\ rng' = NewSeededRandom(configSeed)
    /\ pc' = "seeded"
    /\ UNCHANGED <<rngPrev, rngCalls, rngOp, treeVars, fitVars, drawVars, sinkVars, passes, canvasVars>>

\* const fullTree = generateFullTree(...) / generateSunflower(...)
Generate ==
    /\ pc = "seeded"
    /\ LET g == IF plant = "pine"
                THEN generateFullTree(rng, Vector2(0, 0), 180 * Q, 0 - 90 * AQ,
                                      maxDepth, 0)
                ELSE generateSunflower(rng, Vector2(0, 0), 120 * Q, 0 - 90 * AQ,
                                       maxDepth, 0)
       IN  fullTree' = g.b /\ rng' = g.seed
    /\ pc' = IF run = 1 THEN "generated" ELSE "regenerated"
    /\ UNCHANGED <<rngPrev, rngCalls, rngOp, plant, configSeed, maxDepth, run,
                   firstTree, fitVars, drawVars, sinkVars, passes, canvasVars>>

\* the same seed and arguments are used a second time
Again ==
    /\ pc = "generated" /\ run = 1
    /\ run' = 2 /\ firstTree' = fullTree /\ fullTree' = NoTree
    /\ pc' = "configured"
    /\ UNCHANGED <<rngVars, plant, configSeed, maxDepth, fitVars, drawVars, sinkVars, passes, canvasVars>>

\* const bounds = calculateBounds(fullTree)
CalculateBounds(order) ==
    /\ pc = "generated"
    /\ bounds' = calculateBounds(fullTree, NoBounds)
    /\ visitOrder' = order
    /\ LET items == AllItems(fullTree)
       IN  anyBounds' = BoundsInOrder(NoBounds, items, order, 1, Len(items))
    /\ pc' = "bounded"
    /\ UNCHANGED <<rngVars, treeVars, autoFit, maxDistance, drawVars, sinkVars, passes, canvasVars>>

\* the auto-fit logic and const maxDistance = getMaxDist(fullTree)
Fit ==
    /\ pc = "bounded"
    /\ autoFit' = AutoFit(bounds)
    /\ maxDistance' = IF plant = "pine" THEN getMaxDist(fullTree)
                      ELSE getMaxDistSunflower(fullTree)
    /\ visitOrder' = NoOrder /\ anyBounds' = NoBounds
    /\ pc' = "loop"
    /\ UNCHANGED <<rngVars, treeVars, bounds, drawVars, sinkVars, passes, canvasVars>>

\* one iteration of the frame loop up to the end of the compositor
FlattenFrame ==
    /\ pc = "loop" /\ frame < TotalFrames
    /\ LET p == CurrentGrowthDist(plant, frame, maxDistance)
           f == flattenTreeOrganic(plant, fullTree, <<>>, <<>>, p, autoFit)
       IN  /\ growthDist' = p
           /\ frameBranches' = f.branchList
           /\ frameEntities' = f.entityList
           /\ drawList' = DrawList(plant, f.entityList)
           /\ fullTree' = TreeAfterComposite(TreeAfterFlatten(fullTree, p))
    /\ again' = NoLists
    /\ canvas' = <<>>
    /\ pc' = "flattened"
    /\ UNCHANGED <<rngVars, plant, configSeed, maxDepth, run, firstTree,
                   fitVars, frame, sinkVars, passes, snapshot>>

\* a second call with the same arguments and fresh lists
FlattenAgain ==
    /\ pc = "flattened" /\ again = NoLists
    /\ LET p == CurrentGrowthDist(plant, frame, maxDistance)
           f == flattenTreeOrganic(plant, fullTree, <<>>, <<>>, p, autoFit)
       IN  /\ again' = f
           /\ fullTree' = TreeAfterFlatten(fullTree, p)
    /\ UNCHANGED <<rngVars, pc, plant, configSeed, maxDepth, run, firstTree,
                   fitVars, frame, frameBranches, frameEntities, growthDist,
                   drawList, sinkVars, passes, canvasVars>>

\* a loop that gives the video up when the write returned false
PcGivesUp(ok, f) ==
    IF ~ok THEN "done"
    ELSE IF f + 1 < TotalFrames THEN "loop" ELSE "done"

\* a loop that goes on whatever the write returned
PcNeverWaits(ok, f) == IF f + 1 < TotalFrames THEN "loop" ELSE "done"

\* where generateVideo stands once ffmpeg.stdin.write(buffer) has returned ok
\* for frame f: if (!ok) await ...once('drain'); otherwise frame++ and the
\* loop test, and past the loop the snapshot and ffmpeg.stdin.end()
PcAfterWrite(ok, f) ==
    IF ~ok THEN "draining"
    ELSE IF f + 1 < TotalFrames THEN "loop" ELSE "done"

\* the rest of the iteration: the frame is drawn and written; unless the
\* write asks to wait, frame++ and, past the last frame, stdin.end()
NextFrame(ok) ==
    /\ pc = "flattened"
    /\ stdinWrites' = Append(stdinWrites, frame)
    /\ needDrain' = ~ok
    /\ pc' = PcAfterWrite(ok, frame)
    /\ frame' = IF pc' = "draining" THEN frame ELSE frame + 1
    /\ stdinEnded' = IF pc' = "done" THEN stdinEnded + 1 ELSE stdinEnded
    /\ again' = NoLists
    /\ canvas' = Drawn(plant, frameBranches, drawList)
    /\ snapshot' = IF pc' = "done" THEN Saved(canvas') ELSE snapshot
    /\ UNCHANGED <<rngVars, treeVars, fitVars, frameBranches, frameEntities,
                   growthDist, drawList, passes>>

\* a 'drain' that resolves nothing: the loop stays where it waits
DrainLost ==
    /\ pc = "draining" /\ needDrain
    /\ needDrain' = FALSE
    /\ UNCHANGED <<rngVars, pc, treeVars, fitVars, drawVars, stdinWrites,
                   stdinEnded, passes, canvasVars>>

\* ffmpeg.stdin emits 'drain': the promise resolves and the loop goes on
Drain ==
    /\ pc = "draining" /\ needDrain
    /\ needDrain' = FALSE
    /\ frame' = frame + 1
    /\ pc' = PcAfterWrite(TRUE, frame)
    /\ stdinEnded' = IF pc' = "done" THEN stdinEnded + 1 ELSE stdinEnded
    /\ snapshot' = IF pc' = "done" THEN Saved(canvas) ELSE snapshot
    /\ UNCHANGED <<rngVars, treeVars, fitVars, frameBranches, frameEntities,
                   again, growthDist, drawList, stdinWrites, passes, canvas>>

Next ==
    \/ \E a \in Plants : \E s \in SeedStrings : \E d \in Depths(a) : Start(a, s, d)
    \/ NewRandom
    \/ Generate
    \/ Again
    \/ \E order \in Orders : CalculateBounds(order)
    \/ Fit
    \/ FlattenFrame
    \/ FlattenAgain
    \/ \E ok \in BOOLEAN : NextFrame(ok)
    \/ Drain

Spec == Init /\ [][Next]_vars

-----------------------------------------------------------------------------
(* The generator object on its own: construction and draws *)

\* call sites of nextInt: sideBranchCount, entity count, petalCount
NextIntSites == {<<1, 3>>, <<6, 10>>, <<20, 30>>}

\* States of the generator some number of calls later.  The recurrence has
\* full period (LcgC is odd, LcgA - 1 is a multiple of 4), so from the second
\* call on the object runs through every 32-bit state.  These are the states
\* whose successors are 0, 2^31 and 2^32 - 1.
LaterStates == {<<4069, 9686, 0, 0>>, <<4069, 42454, 0, 0>>, <<46880, 9973, 0, 0>>}

InitRng ==
    /\ rng = NoRng /\ rngPrev = NoRng /\ rngCalls = 0 /\ rngOp = NoOp
    /\ pc = "start"
    /\ plant = "none" /\ configSeed = "" /\ maxDepth = 0 /\ run = 0
    /\ fullTree = NoTree /\ firstTree = NoTree
    /\ bounds = NoBounds /\ visitOrder = NoOrder /\ anyBounds = NoBounds
    /\ autoFit = NoFit /\ maxDistance = 0
    /\ frame = 0 /\ frameBranches = <<>> /\ frameEntities = <<>>
    /\ again = NoLists /\ growthDist = Progress(0, 1) /\ drawList = <<>>
    /\ stdinWrites = <<>> /\ stdinEnded = 0 /\ needDrain = FALSE
    /\ canvas = <<>> /\ snapshot = NoSnapshot
    /\ passes = <<>>

\* new SeededRandom(seedString)
RngConstruct(s) ==
    /\ rng = NoRng
    /\ rng' = NewSeededRandom(s)
    /\ rngPrev' = NoRng /\ rngCalls' = 0 /\ rngOp' = NoOp
    /\ UNCHANGED <<pc, treeVars, fitVars, drawVars, sinkVars, passes, canvasVars>>

\* next(); out is the new seed, the numerator of the returned seed / 2^32
RngNext ==
    /\ rng # NoRng /\ rngCalls < MaxCalls
    /\ rng' = NextSeed(rng)
    /\ rngPrev' = rng /\ rngCalls' = rngCalls + 1
    /\ rngOp' = [op |-> "next", min |-> 0, max |-> 0, out |-> rng']
    /\ UNCHANGED <<pc, treeVars, fitVars, drawVars, sinkVars, passes, canvasVars>>

\* nextInt(min, max)
RngNextInt(min, max) ==
    /\ rng # NoRng /\ rngCalls < MaxCalls
    /\ rng' = NextSeed(rng)
    /\ rngPrev' = rng /\ rngCalls' = rngCalls + 1
    /\ rngOp' = [op |-> "nextInt", min |-> min, max |-> max,
                 out |-> NextInt(rng', min, max)]
    /\ UNCHANGED <<pc, treeVars, fitVars, drawVars, sinkVars, passes, canvasVars>>

\* many calls of next() whose results are not looked at
RngLater(x) ==
    /\ rng # NoRng /\ rngCalls = 1
    /\ rng' = x
    /\ rngPrev' = NoRng /\ rngCalls' = 2
    /\ rngOp' = [op |-> "later", min |-> 0, max |-> 0, out |-> 0]
    /\ UNCHANGED <<pc, treeVars, fitVars, drawVars, sinkVars, passes, canvasVars>>

NextRng ==
    \/ \E s \in SeedStrings : RngConstruct(s)
    \/ RngNext
    \/ \E site \in NextIntSites : RngNextInt(site[1], site[2])
    \/ \E x \in LaterStates : RngLater(x)

SpecRng == InitRng /\ [][NextRng]_vars

-----------------------------------------------------------------------------
(* Properties of generateVideo *)

\* the progress distances looked at: those of the frame loop, and for a
\* reveal that starts at dist and lasts span, the points before, at, within
\* and after it
FrameProgress ==
    {CurrentGrowthDist(plant, f, maxDistance) : f \in 0..(TotalFrames - 1)}

RevealProgress(dist, span) ==
    {Progress(4 * dist + span * j, 4) : j \in (0 - 1)..6}

ProgressLess(p1, p2) == p1.num * p2.den < p2.num * p1.den

LocalTLeq(l1, l2) == l1.n * l2.d <= l2.n * l1.d

LocalTIsOne(l) == l.n = l.d

C4_MonotonicReveal ==
    (pc = "loop" /\ frame = 0) =>
        LET bs == AllBranches(fullTree)
        IN  \A i \in 1..Len(bs) :
                LET ps == RevealProgress(bs[i].distFromRoot, bs[i].length)
                              \cup FrameProgress
                IN  \A p1, p2 \in ps :
                        ProgressLess(p1, p2) =>
                            /\ LocalTLeq(LocalT(bs[i], p1), LocalT(bs[i], p2))
                            /\ LocalTIsOne(LocalT(bs[i], p1))
                                   => LocalTIsOne(LocalT(bs[i], p2))
                            /\ BranchShown(bs[i], p1) => BranchShown(bs[i], p2)

\* a frame in which some branches are emitted in part and others not yet
C4_PartlyRevealed ==
    /\ pc = "flattened"
    /\ Len(frameBranches) > 0
    /\ Len(frameBranches) < Len(AllBranches(fullTree))
    /\ \E i \in 1..Len(AllBranches(fullTree)) :
           LET lt == LocalT(AllBranches(fullTree)[i],
                            CurrentGrowthDist(plant, frame, maxDistance))
           IN  0 < lt.n /\ lt.n < lt.d

\* the opacity flattenTreeOrganic gives entity e of branch b, 0 if not emitted
Opacity(archetype, b, e, p) ==
    IF BranchShown(b, p) /\ EntityShown(archetype, e, p)
    THEN smoothStep(FadeP(archetype, e, p))
    ELSE 0

\* progress >= entity.distFromRoot + fadeSpeed
FadeOver(archetype, e, p) ==
    p.num >= (e.distFromRoot + FadeSpeed(archetype, e) * Q) * p.den

EntityFades(archetype, b, e) ==
    LET ps == RevealProgress(e.distFromRoot, FadeSpeed(archetype, e) * Q)
                  \cup FrameProgress
    IN  /\ \A p1, p2 \in ps :
               ProgressLess(p1, p2) =>
                   Opacity(archetype, b, e, p1) <= Opacity(archetype, b, e, p2)
        /\ \A p \in ps :
               FadeOver(archetype, e, p) => Opacity(archetype, b, e, p) = OQ

BoundsHoldBranch(cb, b) ==
    \A v \in {b.start, b.end, b.control} :
        /\ cb.minX <= v.x /\ v.x <= cb.maxX
        /\ cb.minY <= v.y /\ v.y <= cb.maxY

BoundsHoldEntity(cb, e) ==
    /\ cb.minX <= e.center.x - e.radius /\ e.center.x + e.radius <= cb.maxX
    /\ cb.minY <= e.center.y - e.radius /\ e.center.y + e.radius <= cb.maxY

\* C6: the rectangle of calculateBounds holds the start, end and control
\* point of every branch and the whole disc of every entity, and visiting the
\* branches and entities in another order gives the same rectangle.
C6_BoundsContain ==
    pc = "bounded" =>
        /\ LET items == AllItems(fullTree)
           IN  \A i \in 1..Len(items) :
                   IF items[i].kind = "branch"
                   THEN BoundsHoldBranch(bounds, items[i].v)
                   ELSE BoundsHoldEntity(bounds, items[i].v)
        /\ anyBounds = bounds

\* the items of a tree with children were visited backwards from a later start
C6_OtherOrder ==
    /\ pc = "bounded"
    /\ visitOrder.rev /\ visitOrder.rot > 0
    /\ Len(fullTree.children) > 0 /\ Len(fullTree.entities) > 0

\* numerators of x * scale + offsetX and y * scale + offsetY over 2 * f.sd
FitX(f, x) == 2 * x * f.sn + f.oxn
FitY(f, y) == 2 * y * f.sn + f.oyn

InPaddedX(f, x) ==
    /\ Padding * 2 * f.sd <= FitX(f, x)
    /\ FitX(f, x) <= (Width - Padding) * 2 * f.sd

InPaddedY(f, y) ==
    /\ Padding * 2 * f.sd <= FitY(f, y)
    /\ FitY(f, y) <= (Height - Padding) * 2 * f.sd

\* C7: the scale is min(availW / boundsWidth, availH / boundsHeight); the
\* bounds map into the padded canvas, their horizontal centre to width / 2,
\* their maximum Y to height - padding; so does every branch point and
\* entity disc of the tree.
C7_AutoFit ==
    (pc = "loop" /\ frame = 0) =>
        LET f == autoFit
            w == bounds.maxX - bounds.minX
            h == bounds.maxY - bounds.minY
        IN  /\ f.sd > 0
            /\ f.sn * w <= (Width - Padding * 2) * f.sd
            /\ f.sn * h <= (Height - Padding * 2) * f.sd
            /\ \/ f.sn * w = (Width - Padding * 2) * f.sd
               \/ f.sn * h = (Height - Padding * 2) * f.sd
            /\ InPaddedX(f, bounds.minX) /\ InPaddedX(f, bounds.maxX)
            /\ InPaddedY(f, bounds.minY) /\ InPaddedY(f, bounds.maxY)
            /\ FitX(f, bounds.minX) + FitX(f, bounds.maxX) = Width * 2 * f.sd
            /\ FitY(f, bounds.maxY) = (Height - Padding) * 2 * f.sd
            /\ LET items == AllItems(fullTree)
               IN  \A i \in 1..Len(items) :
                       LET v == items[i].v
                       IN  IF items[i].kind = "branch"
                           THEN \A q \in {v.start, v.end, v.control} :
                                    InPaddedX(f, q.x) /\ InPaddedY(f, q.y)
                           ELSE /\ InPaddedX(f, v.center.x - v.radius)
                                /\ InPaddedX(f, v.center.x + v.radius)
                                /\ InPaddedY(f, v.center.y - v.radius)
                                /\ InPaddedY(f, v.center.y + v.radius)

\* a tree that reaches below its root was fitted by its height
C7_Fitted ==
    /\ pc = "loop"
    /\ bounds.maxY > 0
    /\ autoFit.sd = bounds.maxY - bounds.minY
    /\ bounds.maxX - bounds.minX < autoFit.sd

RECURSIVE Terminal(_)
Terminal(b) == IF Len(b.children) = 0 THEN b ELSE Terminal(b.children[1])

\* C9: the branch generateSunflower returns for segmentsLeft = 0 has no
\* children and owns petalCount petals followed by 150 seeds and no leaf;
\* petals have the branch's distFromRoot and seed i has that plus 0.5 * i.
C9_SunflowerHead ==
    (plant = "sunflower" /\ pc = "generated") =>
        LET head == Terminal(fullTree)
            es   == head.entities
            pc9  == Len(es) - SeedCount
        IN  /\ head.children = <<>>
            /\ pc9 \in 20..29
            /\ \A i \in 1..pc9 :
                   es[i].type = "petal" /\ es[i].distFromRoot = head.distFromRoot
            /\ \A i \in 0..(SeedCount - 1) :
                   /\ es[pc9 + 1 + i].type = "seed"
                   /\ 2 * es[pc9 + 1 + i].distFromRoot
                          = 2 * head.distFromRoot + i * Q
            /\ \A i, j \in 0..(SeedCount - 1) :
                   i < j => es[pc9 + 1 + i].distFromRoot
                                < es[pc9 + 1 + j].distFromRoot
            /\ \A i \in 1..Len(es) : es[i].type # "leaf"

\* a head was generated at the end of a stalk, away from the root
C9_HeadOnStalk ==
    /\ plant = "sunflower" /\ pc = "generated"
    /\ maxDepth > 0
    /\ Terminal(fullTree).distFromRoot > 0
    /\ Len(Terminal(fullTree).entities) > SeedCount

ItemDist(item) ==
    IF item.kind = "branch"
    THEN item.v.distFromRoot + item.v.length
    ELSE item.v.distFromRoot

\* C11: getMaxDist(root) is the maximum over the whole tree of
\* distFromRoot + length of every branch and distFromRoot of every entity,
\* for the sunflower getMaxDist and for the pine getMaxDist.
C11_MaxDistIsMaximum ==
    (pc = "loop" /\ frame = 0) =>
        LET items == AllItems(fullTree)
        IN  /\ \A i \in 1..Len(items) : ItemDist(items[i]) <= maxDistance
            /\ \E i \in 1..Len(items) : ItemDist(items[i]) = maxDistance

\* getMaxDist was taken of a sunflower whose head, with its seeds, ends a stalk
C11_MaxDistTaken ==
    /\ pc = "loop" /\ plant = "sunflower"
    /\ maxDepth > 1
    /\ maxDistance > fullTree.distFromRoot + fullTree.length
    /\ Len(Terminal(fullTree).entities) > SeedCount

\* the growth budget: getMaxDist(root) + 200 for pine, + 300 for sunflower
Budget == maxDistance + (IF plant = "pine" THEN 200 ELSE 300) * Q

\* a step that enters an iteration of the frame loop for frame index `frame`
C12_Iteration ==
    (pc = "loop" /\ pc' = "flattened") =>
        /\ frame' = frame /\ frame \in 0..(TotalFrames - 1)
        /\ growthDist'.den > 0
        /\ growthDist'.num * (TotalFrames - 1) = frame * Budget * growthDist'.den
        /\ frame = 0 => growthDist'.num = 0
        /\ frame = TotalFrames - 1 => growthDist'.num = Budget * growthDist'.den
        /\ frame > 0 => ProgressLess(growthDist, growthDist')

\* C12: frame f of 0..totalFrames-1 is rendered at progress
\* f / (totalFrames - 1) * (getMaxDist(root) + margin), margin 200 for pine
\* and 300 for sunflower; the budget does not change during the loop;
\* progress is 0 at frame 0, the whole budget at the last frame, and greater
\* at each frame than at the one before.
C12_FrameProgress ==
    [][/\ C12_Iteration
       /\ pc \in {"loop", "flattened", "draining"} => maxDistance' = maxDistance
      ]_vars

\* the last frame of a sunflower was rendered, at a progress beyond maxDistance
C12_LastProgress ==
    /\ pc = "flattened" /\ plant = "sunflower"
    /\ frame = TotalFrames - 1
    /\ growthDist.num > maxDistance * growthDist.den

\* C13: while a write has returned false and the sink has not emitted
\* 'drain', generateVideo waits: no frame is rendered and none is written;
\* so a frame is rendered and written only when the one before it has been
\* accepted, and at most one frame is unaccepted at any time.
C13_Backpressure ==
    [][/\ needDrain =>
              /\ pc = "draining"
              /\ stdinWrites' = stdinWrites
              /\ growthDist' = growthDist
              /\ frameBranches' = frameBranches /\ frameEntities' = frameEntities
              /\ drawList' = drawList
              /\ needDrain' => frame' = frame
       /\ Len(stdinWrites') > Len(stdinWrites) =>
              /\ ~needDrain
              /\ Len(stdinWrites') = Len(stdinWrites) + 1
      ]_vars

\* generateVideo waits for 'drain' after a write in the middle of the video
C13_Waiting ==
    /\ pc = "draining" /\ needDrain
    /\ frame > 0 /\ frame < TotalFrames - 1
    /\ Len(stdinWrites) = frame + 1

Hides(leaf, fruit) ==
    LET dx == leaf.center.x - fruit.center.x
        dy == leaf.center.y - fruit.center.y
    IN  /\ leaf.center.y > fruit.center.y
        /\ dx * dx + dy * dy <= (81 * leaf.radius * leaf.radius - 1) \div 100

\* the number of places of the sequence es that hold e
Places(es, e) == Cardinality({i \in 1..Len(es) : es[i] = e})

\* C16: in a pine frame an emitted fruit is in the draw list if and only if
\* no emitted leaf hides it; with no emitted leaf every fruit is kept; every
\* emitted leaf is in the draw list.
C16_PineOcclusion ==
    (pc = "flattened" /\ plant = "pine") =>
        LET leaves == OfType(frameEntities, "leaf")
            fruits == OfType(frameEntities, "fruit")
        IN  /\ \A i \in 1..Len(fruits) :
                   Places(drawList, fruits[i]) =
                       IF \E k \in 1..Len(leaves) : Hides(leaves[k], fruits[i])
                       THEN 0 ELSE Places(fruits, fruits[i])
            /\ \A k \in 1..Len(leaves) :
                   Places(drawList, leaves[k]) = Places(leaves, leaves[k])
            /\ Len(leaves) = 0 => Len(drawList) = Len(fruits)
            /\ Len(leaves) + Len(fruits) = Len(frameEntities)

\* a pine frame in which one fruit is hidden by a leaf and another is drawn
C16_SomeHidden ==
    /\ pc = "flattened" /\ plant = "pine"
    /\ \E i, j \in 1..Len(frameEntities) :
           /\ frameEntities[i].type = "fruit"
           /\ Places(drawList, frameEntities[i]) = 0
           /\ frameEntities[j].type = "fruit"
           /\ Places(drawList, frameEntities[j]) = 1

\* the number of branches on the longest chain from b down to a leaf
RECURSIVE ChainLength(_)
RECURSIVE LongestBelow(_, _)
LongestBelow(cs, i) ==
    IF i > Len(cs) THEN 0
    ELSE Max(ChainLength(cs[i]), LongestBelow(cs, i + 1))

ChainLength(b) == 1 + LongestBelow(b.children, 1)

\* C18: generateFullTree with depth d and generateSunflower with s segments
\* return; with d = 0 or s = 0 the branch returned has no children; the
\* longest chain of the pine has d + 1 branches, and the sunflower is one
\* chain of s + 1 branches.
C18_GenerationEnds ==
    pc = "generated" =>
        LET bs == AllBranches(fullTree)
        IN  /\ maxDepth = 0 => Len(fullTree.children) = 0
            /\ ChainLength(fullTree) = maxDepth + 1
            /\ plant = "sunflower" =>
                   /\ Len(bs) = maxDepth + 1
                   /\ \A i \in 1..Len(bs) : Len(bs[i].children) <= 1

\* a pine of the greatest depth was generated, with side branches at the root
C18_DeepestPine ==
    /\ pc = "generated" /\ plant = "pine"
    /\ maxDepth = MaxDepth
    /\ Len(fullTree.children) > 1
    /\ ChainLength(fullTree) > 2

\* b starts at `start` with distFromRoot `sum`, has a positive length, and
\* each of its children starts at its end with the lengths summed so far
RECURSIVE Cumulative(_, _, _)
Cumulative(b, start, sum) ==
    /\ b.start = start
    /\ b.distFromRoot = sum
    /\ b.length > 0
    /\ \A i \in 1..Len(b.children) :
           /\ b.children[i].distFromRoot = b.distFromRoot + b.length
           /\ b.children[i].distFromRoot > b.distFromRoot
           /\ Cumulative(b.children[i], b.end, sum + b.length)

\* C19: in every generated tree the root has the distFromRoot handed in, 0;
\* every child starts at its parent's end with the parent's distFromRoot plus
\* the parent's length, so distFromRoot is the sum of the ancestors' lengths
\* and grows strictly along every path.
C19_CumulativeDistance ==
    pc = "generated" =>
        /\ fullTree.distFromRoot = 0
        /\ Cumulative(fullTree, Vector2(0, 0), 0)

\* a tree was generated that has a branch three levels below the root
C19_Grandchildren ==
    /\ pc = "generated"
    /\ ChainLength(fullTree) > 3
    /\ \E i \in 1..Len(AllBranches(fullTree)) :
           AllBranches(fullTree)[i].distFromRoot
               > fullTree.length + fullTree.children[1].length

\* an entity on a branch that is emitted, with progress beyond its
\* distFromRoot and a faded-in opacity above 0.01
EmitsEntity(archetype, b, e, p) ==
    /\ p.num > b.distFromRoot * p.den
    /\ LocalT(b, p).n > 0
    /\ p.num > e.distFromRoot * p.den
    /\ Visible(FadeP(archetype, e, p))

\* the entities of the branches bs from the i-th on that satisfy the three
\* conditions, in the order the branches and their lists hold them
RECURSIVE EntitiesDue(_, _, _, _)
EntitiesDue(archetype, bs, i, p) ==
    IF i > Len(bs) THEN <<>>
    ELSE SelectSeq(bs[i].entities,
                   LAMBDA e : EmitsEntity(archetype, bs[i], e, p))
             \o EntitiesDue(archetype, bs, i + 1, p)

\* C21: a frame's entity list holds a copy of an entity exactly when its
\* branch is emitted, progress is beyond the entity's distFromRoot and the
\* smooth-stepped fade is above 0.01: one entry for each such entity and no
\* other; every entry has an opacity above 0.01 and at most 1, and none has
\* a distFromRoot that progress has not passed.
C21_EntityEmission ==
    pc = "flattened" =>
        LET due == EntitiesDue(plant, AllBranches(fullTree), 1, growthDist)
        IN  /\ Len(frameEntities) = Len(due)
            /\ \A j \in 1..Len(frameEntities) :
                   LET c == frameEntities[j]
                   IN  /\ c.type = due[j].type
                       /\ c.distFromRoot = due[j].distFromRoot
                       /\ c.baseColor = due[j].baseColor
                       /\ c.highlightColor = due[j].highlightColor
                       /\ c.opacity = smoothStep(FadeP(plant, due[j], growthDist))
                       /\ 100 * c.opacity >= OQ /\ c.opacity <= OQ
                       /\ growthDist.num > c.distFromRoot * growthDist.den

\* a frame that emits some entities of a branch and leaves out others of the
\* same branch: one that progress has not reached, and one it has reached
\* whose opacity is still 0.01 or less
C21_BelowFloor ==
    /\ pc = "flattened"
    /\ Len(frameEntities) > 0
    /\ \E i \in 1..Len(AllBranches(fullTree)) :
           LET b == AllBranches(fullTree)[i]
           IN  /\ BranchShown(b, growthDist)
               /\ \E k \in 1..Len(b.entities) :
                      /\ ProgressAfter(growthDist, b.entities[k].distFromRoot)
                      /\ ~Visible(FadeP(plant, b.entities[k], growthDist))
               /\ \E k \in 1..Len(b.entities) :
                      ~ProgressAfter(growthDist, b.entities[k].distFromRoot)
               /\ \E k \in 1..Len(b.entities) :
                      EmitsEntity(plant, b, b.entities[k], growthDist)

\* C22: flattening and compositing leave the tree as it was generated: no
\* step after the generation changes a field of a branch or of an entity of
\* the tree, however many frames are flattened and composited; the entries
\* of a frame's entity list are copies with the centre scaled and offset,
\* the radius scaled and the opacity set, the other fields as in the tree;
\* the sorted draw list is made of entries of the frame's list, whose own
\* order and the order of every branch's entities stay as they were.
C22_TreeUnchanged ==
    /\ [](pc = "flattened" =>
            LET due == EntitiesDue(plant, AllBranches(fullTree), 1, growthDist)
            IN  /\ Len(frameEntities) = Len(due)
                /\ \A j \in 1..Len(frameEntities) :
                       frameEntities[j] =
                           [due[j] EXCEPT
                              !.center = Vector2(
                                  TransformX(autoFit, due[j].center.x),
                                  TransformY(autoFit, due[j].center.y)),
                              !.radius = (@ * autoFit.sn * CQ) \div autoFit.sd]
                           @@ [opacity |-> frameEntities[j].opacity]
                /\ Len(drawList) <= Len(frameEntities)
                /\ {drawList[j] : j \in 1..Len(drawList)}
                       \subseteq {frameEntities[j] : j \in 1..Len(frameEntities)})
    /\ [][fullTree' # fullTree =>
              \/ pc = "seeded"
              \/ pc = "generated" /\ pc' = "configured"]_vars

\* a later frame of a pine whose draw list is in another order than the
\* frame's entity list, the root's own entities not being in drawing order
C22_SortedCopies ==
    /\ pc = "flattened" /\ plant = "pine" /\ frame > 1
    /\ Len(drawList) > 1
    /\ drawList # frameEntities
    /\ fullTree.entities # Sort(fullTree.entities, "center.y")
    /\ frameEntities[1].center # fullTree.entities[1].center

\* a + (b - a) * t, the point at fraction t of the way from a to b
Lerp(a, b, lt) == a + ((b - a) * lt.n) \div lt.d

LerpPoint(v, w, lt) == Vector2(Lerp(v.x, w.x, lt), Lerp(v.y, w.y, lt))

\* the branches of bs that are emitted at p, in order
BranchesDue(bs, p) ==
    SelectSeq(bs, LAMBDA b : p.num > b.distFromRoot * p.den /\ LocalT(b, p).n > 0)

\* C23: the segment emitted for a branch starts at the transformed start of
\* the branch; its control point is lerp(start, control, localT) and its end
\* lerp(lerp(start, control, localT), lerp(control, end, localT), localT),
\* taken on the transformed points; at localT = 1 its control and end are
\* the transformed control and end of the branch.
C23_TruncatedCurve ==
    pc = "flattened" =>
        LET due == BranchesDue(AllBranches(fullTree), growthDist)
        IN  /\ Len(frameBranches) = Len(due)
            /\ \A k \in 1..Len(frameBranches) :
                   LET lt == LocalT(due[k], growthDist)
                       s  == TransformPoint(autoFit, due[k].start)
                       c  == TransformPoint(autoFit, due[k].control)
                       e  == TransformPoint(autoFit, due[k].end)
                   IN  /\ frameBranches[k].start = s
                       /\ frameBranches[k].control = LerpPoint(s, c, lt)
                       /\ frameBranches[k].end =
                              LerpPoint(LerpPoint(s, c, lt), LerpPoint(c, e, lt), lt)
                       /\ LocalTIsOne(lt) =>
                              /\ frameBranches[k].control = c
                              /\ frameBranches[k].end = e

\* a frame with a fully grown segment and a segment that stops short of its
\* branch's end, its control point off the branch's
C23_PartCurve ==
    /\ pc = "flattened"
    /\ Len(frameBranches) > 1
    /\ frameBranches[1].end = TransformPoint(autoFit, fullTree.end)
    /\ frameBranches[1].control = TransformPoint(autoFit, fullTree.control)
    /\ \E k \in 2..Len(frameBranches) :
           LET b == BranchesDue(AllBranches(fullTree), growthDist)[k]
           IN  /\ frameBranches[k].end # TransformPoint(autoFit, b.end)
               /\ frameBranches[k].end # frameBranches[k].start
               /\ frameBranches[k].control # TransformPoint(autoFit, b.control)

\* child is shorter than parent by a factor in [lo, hi) hundredths, the
\* product being rounded down to a length unit
ShorterBy(parent, child, lo, hi) ==
    /\ child.length < parent.length
    /\ 100 * (child.length + 1) > lo * parent.length
    /\ 100 * child.length < hi * parent.length

\* the children of b and of every branch below it follow the policy for a
\* branch generated at depth d
RECURSIVE PinePolicy(_, _)
PinePolicy(b, d) ==
    /\ d = 0 => Len(b.children) = 0
    /\ d = 1 => Len(b.children) = 1
    /\ d > 1 => Len(b.children) \in {2, 3}
    /\ \A i \in 1..Len(b.children) :
           /\ IF i = 1 THEN ShorterBy(b, b.children[i], 85, 95)
              ELSE ShorterBy(b, b.children[i], 50, 70)
           /\ b.children[i].start = b.end
           /\ PinePolicy(b.children[i], d - 1)

\* C24: a pine branch generated at depth 0 has no children, at depth 1 one
\* child, the leader, and at a depth above 1 the leader followed by one or
\* two side children; every child is generated one depth lower and is
\* strictly shorter than its parent, the leader by a factor in [0.85, 0.95),
\* a side child by a factor in [0.5, 0.7).
C24_PineBranching ==
    (plant = "pine" /\ pc = "generated") => PinePolicy(fullTree, maxDepth)

\* a pine whose root has the leader and two side children, and one of them
\* the leader and one side child
C24_BothCounts ==
    /\ plant = "pine" /\ pc = "generated" /\ maxDepth > 2
    /\ Len(fullTree.children) = 3
    /\ \E i \in 1..3 : Len(fullTree.children[i].children) = 2
    /\ \E i \in 1..3 :
           Len(fullTree.children[i].children[1].children) = 1

\* twice the x offset of a leaf from the middle of its branch, the middle
\* being rounded down to a coordinate unit
LeafOffset2(b, e) == 2 * e.center.x - (b.start.x + b.end.x)

\* e is the leaf of segment b, on the side dir (-1 left, 1 right)
LeafOn(b, e, dir) ==
    /\ e.type = "leaf"
    /\ LeafOffset2(b, e) \in {dir * 80 * Q - 1, dir * 80 * Q}
    /\ 2 * (e.distFromRoot - b.distFromRoot) \in {b.length - 1, b.length}

\* b and the stalk above it follow the policy for segmentsLeft = s
RECURSIVE StalkPolicy(_, _)
StalkPolicy(b, s) ==
    /\ s = 0 => Len(b.children) = 0
    /\ s > 0 =>
        /\ Len(b.children) = 1
        /\ 100 * b.children[1].length <= 95 * b.length
        /\ 95 * b.length < 100 * (b.children[1].length + 1)
        /\ b.children[1].start = b.end
        /\ \A k \in 1..Len(b.entities) : b.entities[k].type \notin {"petal", "seed"}
        /\ IF 1 < s /\ s < 7
           THEN /\ Len(b.entities) = 1
                /\ LeafOn(b, b.entities[1], IF s % 2 = 0 THEN 0 - 1 ELSE 1)
                /\ Len(b.children[1].entities) = 1 =>
                       (LeafOffset2(b, b.entities[1]) < 0)
                           # (LeafOffset2(b.children[1], b.children[1].entities[1]) < 0)
           ELSE Len(b.entities) = 0
        /\ StalkPolicy(b.children[1], s - 1)

\* C25: a sunflower branch generated with segmentsLeft > 0 has exactly one
\* child, generated with segmentsLeft - 1 and 0.95 of its length, and no
\* petal or seed; it has exactly one leaf when 1 < segmentsLeft < 7 and no
\* entity otherwise; the leaf is 40 to the left of the branch's middle when
\* segmentsLeft is even and 40 to the right when odd, so leaves of
\* consecutive segments are on opposite sides, and its distFromRoot is the
\* branch's plus half the length.
C25_SunflowerStalk ==
    (plant = "sunflower" /\ pc = "generated") => StalkPolicy(fullTree, maxDepth)

\* a stalk whose two lowest segments have no leaf, the next a leaf on the
\* left and the one above a leaf on the right
C25_LeavesAlternate ==
    /\ plant = "sunflower" /\ pc = "generated" /\ maxDepth = 8
    /\ Len(fullTree.entities) = 0
    /\ Len(fullTree.children[1].entities) = 0
    /\ LET b6 == fullTree.children[1].children[1]
           b5 == b6.children[1]
       IN  /\ Len(b6.entities) = 1 /\ b6.entities[1].center.x < b6.start.x - 20 * Q
           /\ Len(b5.entities) = 1 /\ b5.entities[1].center.x > b5.start.x + 20 * Q

\* the stroke width stored for a branch generated at depth (or with
\* segmentsLeft) d is the one the archetype's formula gives
WidthAt(archetype, b, d) ==
    IF archetype = "pine"
    THEN /\ b.strokeWidth >= Max(2 * Q, 5 * d * Q - Q)
         /\ b.strokeWidth <= Max(2 * Q, 5 * d * Q + Q)
    ELSE 2 * b.strokeWidth = Max(16 * Q, 7 * d * Q)

\* below b, generated at d, no child is wider than its parent and no branch
\* thinner than floor
RECURSIVE Tapers(_, _, _, _)
Tapers(archetype, b, d, floor) ==
    /\ b.strokeWidth >= floor
    /\ WidthAt(archetype, b, d)
    /\ \A i \in 1..Len(b.children) :
           /\ b.children[i].strokeWidth <= b.strokeWidth
           /\ Tapers(archetype, b.children[i], d - 1, floor)

\* C26: in every generated tree a child's stored strokeWidth is not greater
\* than its parent's, and every strokeWidth is at least 2 for a pine, where
\* it is max(2, 5 * depth + a jitter in [-1, 1)), and at least 8 for a
\* sunflower, where it is max(8, 3.5 * segmentsLeft).
C26_StrokeTaper ==
    pc = "generated" =>
        Tapers(plant, fullTree, maxDepth, IF plant = "pine" THEN 2 * Q ELSE 8 * Q)

\* a tree whose widths fall from the root to a branch at the floor
C26_DownToFloor ==
    /\ pc = "generated" /\ maxDepth > 2
    /\ fullTree.strokeWidth > fullTree.children[1].strokeWidth
    /\ fullTree.children[1].strokeWidth
           > fullTree.children[1].children[1].strokeWidth
    /\ \E i \in 1..Len(AllBranches(fullTree)) :
           AllBranches(fullTree)[i].strokeWidth
               = (IF plant = "pine" THEN 2 * Q ELSE 8 * Q)

\* the entities drawn on the canvas, in drawing order
DiscsDrawn ==
    LET ds == SelectSeq(canvas, LAMBDA c : c.kind = "entity")
    IN  [i \in 1..Len(ds) |-> ds[i].v]

\* the layer of a sunflower drawing call: leaves, stalk, petals, seeds
Layer(c) ==
    IF c.kind # "entity" THEN 2
    ELSE IF c.v.type = "leaf" THEN 1
    ELSE IF c.v.type = "petal" THEN 3
    ELSE 4

\* a frame has been drawn and written, and its lists are still in place
FrameDrawn == pc \in {"loop", "draining", "done"} /\ Len(stdinWrites) > 0

\* C27: the entities of a pine frame are drawn leaves first, in
\* non-decreasing center.y, then the fruits no leaf hides, in non-decreasing
\* center.y; what is drawn is each emitted leaf and each such fruit once and
\* nothing else.  A sunflower frame is drawn leaves, then every stalk
\* segment, then petals, then seeds in non-decreasing distFromRoot.
C27_DrawOrder ==
    FrameDrawn =>
        LET ds     == DiscsDrawn
            leaves == OfType(frameEntities, "leaf")
        IN  IF plant = "pine"
            THEN /\ \A i \in 1..(Len(ds) - 1) :
                        /\ ds[i].type = "fruit" => ds[i + 1].type = "fruit"
                        /\ ds[i].type = ds[i + 1].type =>
                               ds[i].center.y <= ds[i + 1].center.y
                 /\ \A i \in 1..Len(frameEntities) :
                        LET e == frameEntities[i]
                        IN  Places(ds, e) =
                                IF e.type = "fruit"
                                   /\ \E k \in 1..Len(leaves) : Hides(leaves[k], e)
                                THEN 0 ELSE Places(frameEntities, e)
                 /\ \A i \in 1..Len(ds) : Places(frameEntities, ds[i]) > 0
                 /\ \A i \in 1..Len(canvas) : \A j \in 1..Len(canvas) :
                        (canvas[i].kind = "entity" /\ canvas[j].kind # "entity")
                            => j < i
            ELSE /\ \A i \in 1..(Len(canvas) - 1) :
                        /\ Layer(canvas[i]) <= Layer(canvas[i + 1])
                        /\ Layer(canvas[i]) = 4 =>
                               canvas[i].v.distFromRoot
                                   <= canvas[i + 1].v.distFromRoot
                 /\ Len(ds) = Len(frameEntities)
                 /\ \A t \in {"leaf", "petal", "seed"} :
                        Len(OfType(ds, t)) = Len(OfType(frameEntities, t))
                 /\ [i \in 1..Len(frameBranches) |-> DrawCall("stroke", frameBranches[i])]
                        = SelectSeq(canvas, LAMBDA c : c.kind = "stroke")

\* a pine frame was drawn with leaves in another order than they were
\* emitted in, followed by fruits, one emitted fruit not being drawn
C27_Reordered ==
    /\ FrameDrawn /\ plant = "pine"
    /\ Len(OfType(DiscsDrawn, "leaf")) > 2
    /\ OfType(DiscsDrawn, "leaf") # OfType(frameEntities, "leaf")
    /\ Len(OfType(DiscsDrawn, "fruit")) > 1
    /\ Len(DiscsDrawn) < Len(frameEntities)

\* below and at b no branch is emitted at p unless above holds, above
\* saying that every ancestor is emitted with localT = 1
RECURSIVE NoOrphan(_, _, _)
NoOrphan(b, p, above) ==
    /\ (p.num > b.distFromRoot * p.den /\ LocalT(b, p).n > 0) => above
    /\ \A i \in 1..Len(b.children) :
           NoOrphan(b.children[i], p,
                    /\ above
                    /\ p.num > b.distFromRoot * p.den
                    /\ LocalTIsOne(LocalT(b, p)))

\* the progress values before, at, within and after the growth of each branch
GrowthProgress(bs) ==
    UNION {RevealProgress(bs[i].distFromRoot, bs[i].length) : i \in 1..Len(bs)}

\* C28: in a generated tree, at every progress, a branch is emitted only if
\* each of its ancestors is emitted with localT = 1; so in every frame of
\* the loop each segment's ancestors are there in full.
C28_AncestorsFirst ==
    /\ (pc = "loop" /\ frame = 0) =>
           \A p \in GrowthProgress(AllBranches(fullTree)) \cup FrameProgress :
               NoOrphan(fullTree, p, TRUE)
    /\ pc = "flattened" =>
           /\ NoOrphan(fullTree, growthDist, TRUE)
           /\ Len(frameBranches)
                  = Len(BranchesDue(AllBranches(fullTree), growthDist))

\* a frame with a segment growing on a fully grown parent on a fully grown
\* root, and a branch of the tree not yet emitted
C28_GrowingTip ==
    /\ pc = "flattened" /\ maxDepth > 2
    /\ LocalTIsOne(LocalT(fullTree, growthDist))
    /\ LocalTIsOne(LocalT(fullTree.children[1], growthDist))
    /\ LET tip == fullTree.children[1].children[1]
       IN  /\ BranchShown(tip, growthDist)
           /\ ~LocalTIsOne(LocalT(tip, growthDist))
    /\ Len(frameBranches) < Len(AllBranches(fullTree))

\* the entities of the tree in the order of the traversal
AllEntities(tree) ==
    LET es == SelectSeq(AllItems(tree), LAMBDA item : item.kind = "entity")
    IN  [i \in 1..Len(es) |-> es[i].v]

\* the frame's lists show the whole tree: every branch with localT = 1,
\* every entity once with opacity 1
FullyRevealed ==
    LET bs == AllBranches(fullTree)
        es == AllEntities(fullTree)
    IN  /\ Len(frameBranches) = Len(bs)
        /\ \A i \in 1..Len(bs) :
               /\ growthDist.num > bs[i].distFromRoot * growthDist.den
               /\ LocalTIsOne(LocalT(bs[i], growthDist))
               /\ frameBranches[i].end = TransformPoint(autoFit, bs[i].end)
        /\ Len(frameEntities) = Len(es)
        /\ \A j \in 1..Len(es) :
               /\ frameEntities[j].opacity = OQ
               /\ frameEntities[j].type = es[j].type
               /\ frameEntities[j].distFromRoot = es[j].distFromRoot
               /\ frameEntities[j].center = TransformPoint(autoFit, es[j].center)

\* C29: at the last frame progress is getMaxDist(root) + margin (200 pine,
\* 300 sunflower); the frame's lists hold every branch with localT = 1 and
\* every entity of the tree once with opacity exactly 1; the snapshot is
\* saved once the loop is over, from the canvas as that frame drew it, and
\* not before.
C29_FinalFrame ==
    /\ (pc = "flattened" /\ frame = TotalFrames - 1) =>
           /\ growthDist.num =
                  growthDist.den * (maxDistance
                      + (IF plant = "pine" THEN 200 ELSE 300) * Q)
           /\ growthDist.den > 0
           /\ FullyRevealed
    /\ pc = "done" =>
           /\ FullyRevealed
           /\ snapshot.saved
           /\ snapshot.image = Drawn(plant, frameBranches, drawList)
           /\ Len(SelectSeq(snapshot.image, LAMBDA c : c.kind = "stroke"))
                  = Len(AllBranches(fullTree))
    /\ pc # "done" => ~snapshot.saved

\* a tree with several levels and entities was drawn to the end and saved
C29_SnapshotSaved ==
    /\ pc = "done" /\ snapshot.saved
    /\ maxDepth > 1
    /\ Len(frameBranches) > 2 /\ Len(frameEntities) > 6
    /\ Len(snapshot.image) > Len(frameBranches) + 6
    /\ frameEntities[Len(frameEntities)].opacity = OQ

-----------------------------------------------------------------------------
(* The auto-fit on its own: bounds of hand-made single branches, some of    *)
(* them without extent                                                      *)

\* end points of the hand-made branches, relative to the start (0, 0)
FitEnds == {0 - 180 * Q, 0, 90 * Q, 180 * Q}

\* new Branch(start, end, 5, midpoint, |end - start|, 0, [], [])
BareBranch(x, y) ==
    Branch(Vector2(0, 0), Vector2(x, y), 5 * Q, Vector2(x \div 2, y \div 2),
           ISqrt(x * x + y * y), 0, <<>>, <<>>)

InitFit ==
    /\ rng = NoRng /\ rngPrev = NoRng /\ rngCalls = 0 /\ rngOp = NoOp
    /\ pc = "generated"
    /\ plant = "pine" /\ configSeed = "" /\ maxDepth = 0 /\ run = 2
    /\ \E x, y \in FitEnds : fullTree = BareBranch(x, y)
    /\ firstTree = NoTree
    /\ bounds = NoBounds /\ visitOrder = NoOrder /\ anyBounds = NoBounds
    /\ autoFit = NoFit /\ maxDistance = 0
    /\ frame = 0 /\ frameBranches = <<>> /\ frameEntities = <<>>
    /\ again = NoLists /\ growthDist = Progress(0, 1) /\ drawList = <<>>
    /\ stdinWrites = <<>> /\ stdinEnded = 0 /\ needDrain = FALSE
    /\ canvas = <<>> /\ snapshot = NoSnapshot
    /\ passes = <<>>

NextFit ==
    \/ \E order \in Orders : CalculateBounds(order)
    \/ Fit

SpecFit == InitFit /\ [][NextFit]_vars

\* a quotient n / d of the fit is a finite number: d = 0 stands for a
\* division by zero, whose result is Infinity, -Infinity or NaN
Finite(d) == d # 0

-----------------------------------------------------------------------------
(* Two flattenTreeOrganic calls over one tree, interleaved branch by branch *)

\* largest depth / segment count of the trees the two calls run over
MaxPassDepth == 2

PassSeeds == {"a", "pine"}

\* the frames whose progress the calls are given
PassFrames == {1, TotalFrames \div 2, TotalFrames - 1}

\* the branch reached from the root by a sequence of child indices
RECURSIVE BranchAt(_, _)
BranchAt(tree, path) ==
    IF Len(path) = 0 THEN tree
    ELSE BranchAt(tree.children[Head(path)], Tail(path))

\* b.children.forEach(child => flattenTreeOrganic(child, ...)): the calls
\* still to make once the branch at path has been dealt with
ChildPaths(path, n) == [i \in 1..n |-> Append(path, i)]

\* the tree, had the visit of a shown branch scaled its entities in place
RECURSIVE TreeAfterVisitInPlace(_, _, _)
TreeAfterVisitInPlace(tree, path, p) ==
    IF Len(path) = 0
    THEN TreeAfterFlattenInPlace(tree, p)
    ELSE [tree EXCEPT !.children[Head(path)] =
              TreeAfterVisitInPlace(@, Tail(path), p)]

\* the visit of one branch assigns to the two lists only
TreeAfterVisit(tree, path, p) == tree

\* a call about to start at the root; visited is the history of the
\* branches it has dealt with
NewPass(p) ==
    [p |-> p, stack |-> << <<>> >>, visited |-> <<>>,
     branchList |-> <<>>, entityList |-> <<>>]

\* a visit that goes down to the children of a branch only if it is shown
PassVisitShownOnly(pass, path, b) ==
    LET own == FlattenBranch(plant, b, pass.p, autoFit)
    IN  [p          |-> pass.p,
         stack      |-> (IF BranchShown(b, pass.p)
                         THEN ChildPaths(path, Len(b.children)) ELSE <<>>)
                            \o Tail(pass.stack),
         visited    |-> Append(pass.visited, path),
         branchList |-> pass.branchList \o own.branchList,
         entityList |-> pass.entityList \o own.entityList]

\* the part of one call that deals with its own branch b
PassVisit(pass, path, b) ==
    LET own == FlattenBranch(plant, b, pass.p, autoFit)
    IN  [p          |-> pass.p,
         stack      |-> ChildPaths(path, Len(b.children)) \o Tail(pass.stack),
         visited    |-> Append(pass.visited, path),
         branchList |-> pass.branchList \o own.branchList,
         entityList |-> pass.entityList \o own.entityList]

PassesOver(a, tree, f1, f2) ==
    LET maxDist == IF a = "pine" THEN getMaxDist(tree) ELSE getMaxDistSunflower(tree)
    IN  /\ maxDistance = maxDist
        /\ passes = <<NewPass(CurrentGrowthDist(a, f1, maxDist)),
                      NewPass(CurrentGrowthDist(a, f2, maxDist))>>

InitPassesFor(a, s, d, tree, bs) ==
    /\ rng = NoRng /\ rngPrev = NoRng /\ rngCalls = 0 /\ rngOp = NoOp
    /\ pc = "passes"
    /\ plant = a /\ configSeed = s /\ maxDepth = d /\ run = 1
    /\ fullTree = tree /\ firstTree = tree
    /\ bounds = bs /\ visitOrder = NoOrder /\ anyBounds = NoBounds
    /\ autoFit = AutoFit(bs)
    /\ \E f1, f2 \in PassFrames : f1 <= f2 /\ PassesOver(a, tree, f1, f2)
    /\ frame = 0 /\ frameBranches = <<>> /\ frameEntities = <<>>
    /\ again = NoLists /\ growthDist = Progress(0, 1) /\ drawList = <<>>
    /\ stdinWrites = <<>> /\ stdinEnded = 0 /\ needDrain = FALSE
    /\ canvas = <<>> /\ snapshot = NoSnapshot

InitPassesOn(a, s, d, tree) ==
    InitPassesFor(a, s, d, tree, calculateBounds(tree, NoBounds))

\* a tree made by hand whose root is reached later than its child: the root
\* has distFromRoot 180, the child a distFromRoot from LateChildDists
LateChildDists == {0, 90 * Q}

LateRoot(childDist) ==
    Branch(Vector2(0, 0), Vector2(0, 0 - 180 * Q), 5 * Q,
           Vector2(0, 0 - 90 * Q), 180 * Q, 180 * Q,
           << Branch(Vector2(0, 0 - 180 * Q), Vector2(90 * Q, 0 - 270 * Q), 3 * Q,
                     Vector2(45 * Q, 0 - 225 * Q), 127 * Q, childDist,
                     <<>>, <<>>) >>,
           <<>>)

InitPasses ==
    \/ \E a \in Plants : \E s \in PassSeeds : \E d \in 0..MaxPassDepth :
           InitPassesOn(a, s, d,
               IF a = "pine"
               THEN generateFullTree(NewSeededRandom(s), Vector2(0, 0), 180 * Q,
                                     0 - 90 * AQ, d, 0).b
               ELSE generateSunflower(NewSeededRandom(s), Vector2(0, 0), 120 * Q,
                                      0 - 90 * AQ, d, 0).b)
    \/ \E c \in LateChildDists : InitPassesOn("pine", "", 1, LateRoot(c))

\* call k goes on by one branch
PassStep(k) ==
    /\ pc = "passes"
    /\ Len(passes[k].stack) > 0
    /\ LET path == Head(passes[k].stack)
       IN  /\ passes' = [passes EXCEPT
                            ![k] = PassVisit(@, path, BranchAt(fullTree, path))]
           /\ fullTree' = TreeAfterVisit(fullTree, path, passes[k].p)
    /\ UNCHANGED <<rngVars, pc, plant, configSeed, maxDepth, run, firstTree,
                   fitVars, drawVars, sinkVars, canvasVars>>

NextPasses == \E k \in 1..2 : PassStep(k)

SpecPasses == InitPasses /\ [][NextPasses]_vars

\* C17: of two flattenTreeOrganic calls over the same tree that are
\* interleaved branch by branch, each with its own progress and its own
\* lists, each ends with the lists it fills when run alone, and the tree is
\* as it was.
C17_InterleavedPasses ==
    pc = "passes" =>
        /\ fullTree = firstTree
        /\ \A k \in 1..2 :
               Len(passes[k].stack) = 0 =>
                   LET alone == flattenTreeOrganic(plant, firstTree, <<>>, <<>>,
                                                   passes[k].p, autoFit)
                   IN  /\ passes[k].branchList = alone.branchList
                       /\ passes[k].entityList = alone.entityList

\* one call has ended with branches and entities in its lists while the
\* other, with another progress, is in the middle of the tree
C17_OneEnded ==
    /\ pc = "passes"
    /\ Len(passes[1].stack) = 0
    /\ Len(passes[1].branchList) > 1 /\ Len(passes[1].entityList) > 0
    /\ Len(passes[2].stack) > 0 /\ Len(passes[2].branchList) > 0
    /\ passes[1].p # passes[2].p

\* the branches of a tree as flattenTreeOrganic's recursion reaches them:
\* the branch itself, then each child's in turn
RECURSIVE PathsFrom(_, _)
RECURSIVE PathsBelow(_, _, _)
PathsBelow(b, path, i) ==
    IF i > Len(b.children) THEN <<>>
    ELSE PathsFrom(b.children[i], Append(path, i)) \o PathsBelow(b, path, i + 1)

PathsFrom(b, path) == <<path>> \o PathsBelow(b, path, 1)

\* the segments of those of the branches at paths that are shown at p
RECURSIVE SegmentsShown(_, _, _, _)
SegmentsShown(tree, paths, i, p) ==
    IF i > Len(paths) THEN <<>>
    ELSE (IF BranchShown(BranchAt(tree, paths[i]), p)
          THEN <<VisibleBranch(plant, BranchAt(tree, paths[i]), p, autoFit)>>
          ELSE <<>>) \o SegmentsShown(tree, paths, i + 1, p)

\* C20: a flattenTreeOrganic call visits each branch of the tree once, a
\* parent before its children, whatever the progress; a branch that is not
\* shown adds no segment but its children are visited; the segments emitted
\* are those of the branches that are themselves shown, whether or not
\* their parents are.
C20_FlattenTraversal ==
    pc = "passes" =>
        LET paths == PathsFrom(firstTree, <<>>)
        IN  \A k \in 1..2 :
                /\ Len(passes[k].visited) <= Len(paths)
                /\ passes[k].visited = SubSeq(paths, 1, Len(passes[k].visited))
                /\ Len(passes[k].stack) = 0 => Len(passes[k].visited) = Len(paths)
                /\ passes[k].branchList =
                       SegmentsShown(firstTree, passes[k].visited, 1, passes[k].p)

\* a call has ended that emitted the child of a root it did not emit
C20_ChildWithoutParent ==
    /\ pc = "passes"
    /\ Len(passes[1].stack) = 0
    /\ Len(passes[1].visited) = 2
    /\ ~BranchShown(fullTree, passes[1].p)
    /\ BranchShown(fullTree.children[1], passes[1].p)
    /\ Len(passes[1].branchList) = 1

-----------------------------------------------------------------------------
(* The frame loop on its own, from the point generateVideo enters it *)

\* generateVideo has generated the structure, fitted it and taken maxDistance
InitLive ==
    \E a \in Plants : \E s \in PassSeeds : \E d \in 0..MaxPassDepth :
        LET g == IF a = "pine"
                 THEN generateFullTree(NewSeededRandom(s), Vector2(0, 0), 180 * Q,
                                       0 - 90 * AQ, d, 0)
                 ELSE generateSunflower(NewSeededRandom(s), Vector2(0, 0), 120 * Q,
                                        0 - 90 * AQ, d, 0)
        IN  /\ rng = g.seed /\ rngPrev = NoRng /\ rngCalls = 0 /\ rngOp = NoOp
            /\ pc = "loop"
            /\ plant = a /\ configSeed = s /\ maxDepth = d /\ run = 1
            /\ fullTree = g.b /\ firstTree = NoTree
            /\ bounds = calculateBounds(g.b, NoBounds)
            /\ visitOrder = NoOrder /\ anyBounds = NoBounds
            /\ autoFit = AutoFit(calculateBounds(g.b, NoBounds))
            /\ maxDistance = IF a = "pine" THEN getMaxDist(g.b)
                             ELSE getMaxDistSunflower(g.b)
            /\ frame = 0 /\ frameBranches = <<>> /\ frameEntities = <<>>
            /\ again = NoLists /\ growthDist = Progress(0, 1) /\ drawList = <<>>
            /\ stdinWrites = <<>> /\ stdinEnded = 0 /\ needDrain = FALSE
            /\ canvas = <<>> /\ snapshot = NoSnapshot
            /\ passes = <<>>

NextLive ==
    \/ FlattenFrame
    \/ \E ok \in BOOLEAN : NextFrame(ok)
    \/ Drain

\* the steps of NextLive told by where they start and end: a FlattenFrame
\* step, a NextFrame step, a Drain step
Flattens == pc = "loop" /\ pc' = "flattened"
Writes   == pc = "flattened" /\ pc' \in {"loop", "draining", "done"}
Drains   == pc = "draining" /\ pc' \in {"loop", "done"}

\* generateVideo runs on: each step of the frame loop that can be taken is
\* taken in the end; and the sink, whenever a write has returned false,
\* emits 'drain' in the end
SpecLive ==
    /\ InitLive /\ [][NextLive]_vars
    /\ WF_pc(Flattens)
    /\ WF_pc(Writes)
    /\ WF_pc(Drains)

\* the video is complete: every frame written, the snapshot saved, the
\* stream ended
VideoDone ==
    /\ pc = "done"
    /\ Len(stdinWrites) = TotalFrames
    /\ snapshot.saved
    /\ stdinEnded = 1

\* C30: if the sink emits 'drain' in the end whenever a write has returned
\* false, the frame loop, once entered, writes all totalFrames frames, saves
\* the snapshot and ends the stream; and while a write has returned false
\* the only step there is, is the 'drain': until it comes no later frame is
\* written and the stream is not ended.
C30_FrameLoopLive ==
    /\ (pc = "loop" /\ frame = 0) ~> VideoDone
    /\ [][(pc = "draining" /\ needDrain) =>
              /\ ~needDrain'
              /\ stdinWrites' = stdinWrites
              /\ frame' = frame + 1]_vars
    /\ [](needDrain => (pc = "draining" /\ stdinEnded = 0 /\ ~snapshot.saved))

\* a sunflower's video is complete
C30_Complete ==
    /\ VideoDone /\ plant = "sunflower" /\ maxDepth > 0
    /\ frame = TotalFrames /\ ~needDrain

-----------------------------------------------------------------------------
(* Properties of the generator object *)

\* (state * 1664525 + 1013904223) mod 2^32 over the integers
ExactLcg(x) == Low32(AddBig(MulLcgA(x), <<LcgC % LB, LcgC \div LB>>))

IsState32(x) ==
    /\ Len(x) = 4
    /\ x[1] \in 0..(LB - 1) /\ x[2] \in 0..(LB - 1)
    /\ x[3] = 0 /\ x[4] = 0

\* C2: every call of next(), the first one after construction included, sets
\* the state to exactly (previous state * 1664525 + 1013904223) mod 2^32, a
\* value in [0, 2^32), and returns state / 2^32.
C2_NextIsExactLcg ==
    rngOp.op = "next" =>
        /\ rng = ExactLcg(rngPrev)
        /\ IsState32(rng)
        /\ rngOp.out = rng

\* C3: nextInt(min, max) returns an integer r with min <= r <= max - 1, at
\* every call site: nextInt(1, 3), nextInt(6, 10) and nextInt(20, 30).
C3_NextIntBelowMax ==
    rngOp.op = "nextInt" =>
        /\ rngOp.min <= rngOp.out
        /\ rngOp.out <= rngOp.max - 1

\* nextInt(20, 30) made on the largest draw, 2^32 - 1, returns 29
C3_LargestDraw ==
    /\ rngOp = [op |-> "nextInt", min |-> 20, max |-> 30, out |-> 29]
    /\ rng = <<LB - 1, LB - 1, 0, 0>>

====
